---- MODULE Spec2Model ----
(***************************************************************************)
(* gfw_pixetl: the tile pipeline (seed, filter, transform, finalize,       *)
(* upload, clean) and the per-tile transform of a raster source tile.      *)
(*                                                                         *)
(* One action per pipeline stage handling one tile; the stages of          *)
(* different tiles interleave freely, as the stage workers do.             *)
(***************************************************************************)
EXTENDS Integers, Sequences, FiniteSets, TLC

\* ------------------------------------------------------------------ bounds
\* Number of grid tiles seeded by get_grid_tiles (the real grid has 64800).
NTiles == 2

\* The largest multiprocessing.cpu_count() of a machine.
MaxCpus == 6

\* ------------------------------------------------------------- tile ids
\* Tile ids of the 1/4000 test grid; the first NTiles of them form the grid.
TILE_IDS == <<"10N_010E", "10N_011E", "20N_010E", "30N_010E", "11N_010E", "11N_011E">>

TileIdSet == {TILE_IDS[i] : i \in 1..Len(TILE_IDS)}

\* tests/test_raster_pipe.py: SUBSET = ["10N_010E", "20N_010E", "30N_010E"]
SUBSET_IDS == {"10N_010E", "20N_010E", "30N_010E"}

\* The subsets a run may be started with; {} stands for subset=None.
Subsets == {{}, SUBSET_IDS}

\* The destination objects that may exist before the first run.
InitialRemotes == {{}, {"10N_010E"}}

\* Tile.status of a new tile.
TileInitStatus == "pending"

\* ------------------------------------------------------------- the stages
\* RasterPipe.create_tiles: the stages in the order they are piped.
\* Stage 6 is compress in the raster pipe and calculate in the calc pipe.
STAGES == <<"filter_subset_tiles", "filter_src_tiles", "filter_target_tiles",
            "transform", "delete_if_empty", "compress", "upload_file",
            "delete_file", "results">>

NStages == Len(STAGES)

StageNo(name) == CHOOSE i \in 1..NStages : STAGES[i] = name

VARIABLES
    grid_tiles,     \* the tiles seeded by get_grid_tiles
    subset,         \* Pipe.subset ({} = None)
    overwrite,      \* create_tiles(overwrite)
    pipe_kind,      \* "raster" (RasterPipe) or "calc" (CalcRasterPipe)
    workers,        \* Pipe.workers of the pipe that runs
    src_data,       \* per tile: "none" (source does not intersect), "empty", "data"
    q,              \* q[s][t]: copies of tile t waiting at the input of stage s
    status,         \* Tile.status
    has_data,       \* what Tile.transform returned
    local_dst,      \* the tile's local output file exists
    remote,         \* tiles whose destination object exists in the bucket
    events,         \* per tile: the tile methods that were invoked on it in this run
    entered,        \* entered[s][t]: how often stage s consumed tile t
    left,           \* left[s][t]: how often stage s yielded tile t
    tiles,          \* result list: processed tiles
    skipped_tiles,  \* result list: skipped tiles
    failed_tiles,   \* result list: failed tiles
    upload_err,     \* tiles whose upload raised in this run
    transform_err,  \* tiles whose window processing raised in this run
    phase,          \* "running", "returned" (create_tiles returned), "aborted"
    run,            \* "first" or "second": the pipeline is run twice
    remote_first,   \* the remote objects when the first run returned
    \* --- pixetl.py: the command-line program
    version,        \* the version string, a sequence of characters
    pc,             \* where pixetl() / cli() is
    created,        \* what pixetl() has created so far: "cwd", "grid", "layer", "pipe"
    exit_code,      \* the exit code of the program; NoExit while it runs
    \* --- models/pydantic.py: LayerModel
    validation,     \* "none", "ok" or "ValidationError"
    \* --- tiles/raster_src_tile.py: _calc and _set_dtype on the array of a window
    masked_array,   \* the array read for the window: a sequence of cells [data, mask]
    calc,           \* layer.calc as a sequence of tokens; <<>> is None
    nodata,         \* dst.nodata: <<>> (none) or <<value>>
    ret,            \* the arrays returned by the calls made so far
    globals_f,      \* what the module global f is bound to: <<>> or <<expression>>
    executed,       \* the expressions whose code was run
    \* --- a call of a function decorated with @retry
    fn,             \* "none", "fetch_meta" or "_read_window"
    attempts,       \* what each attempt so far ended with
    waits,          \* the milliseconds slept before each further attempt
    call_result,    \* "pending", "returned" or the exception that left the call
    \* --- tiles/raster_src_tile.py: _process_windows
    out_files,      \* per window: "todo", "running", "writing", "file", "none" (no data)
                    \* or "raised"
    tmp_files,      \* the files in the tile's tmp_dir
    par_pc,         \* where _process_windows is
    GLOBALS_cores,  \* GLOBALS.cores
    GLOBALS_workers, \* GLOBALS.workers, the width of the tile pipeline
    GLOBALS_divisor, \* GLOBALS.divisor
    memory,         \* utils.available_memory_per_process_bytes()
    layer_calc,     \* layer.calc is not None
    x_blocks,       \* the blocks on each side of the destination tile
    windows,        \* the list windows() returned: the first block <<i, j>> of each
    pool,           \* the processes of the sub-pool; 0 without a pool
    partial,        \* the temporary files that are not completely written
    vrt_srcs,       \* the files the composite VRT was built from
    dst_shape,      \* the local output file: <<>> or <<width, height>> in blocks
    \* --- the geometry of a tile: snapping, the VRT transform, the input files
    src_bounds,     \* <<west, south, east, north>>, in units of 0.00001 degrees
    snap_ret,       \* what snap_coordinates(north, west) returned: <<>> or <<lat, lng>>
    vrt_ret,        \* what _vrt_transform returned: <<>> or <<transform, width, height>>
    input_files,    \* layer.input_files: the polygons of the manifest
    src_ret,        \* what RasterSrcTile.src gave: <<>>, <<"RasterSource", files>> or
                    \* <<"Exception", {}>>
    within_ret,     \* what RasterSrcTile.within returned: <<>> or <<boolean>>
    dst_profile,    \* self.dst[self.default_format].profile: <<width, height, transform>>
    file_profile,   \* per temporary file: the profile it was opened with
    windows_has_data, \* <<>>, or <<has_data>> as _process_windows returned it
    machine_cpus,   \* multiprocessing.cpu_count() where pipe_factory is called
    layer,          \* the layer handed to pipe_factory: its class and its attribute calc
    pipe,           \* what pipe_factory gave: <<>>, <<class, workers>> or <<"ValueError", 0>>
    service_client, \* the nonlocal service_client of a getter: 0 (None) or a client
    constructed,    \* how many clients boto3.client has constructed for the getter
    client_pc,      \* per thread: where it is in client()
    client_calls,   \* per thread: how many calls of the getter it has finished
    returned,       \* the clients the calls of the getter have returned
    tr_array,       \* _transform: masked_array, then array
    tr_calc,        \* _transform: layer.calc
    tr_nodata,      \* _transform: dst.nodata
    tr_pc,          \* _transform: the call it is about to make
    tr_log,         \* _transform: the calls it has made
    tr_written,     \* _transform: the arrays written
    out_file,       \* _transform: <<>>, or what it returned: <<"None">> or <<"path">>
    plan_dst,       \* _windows: width, height and block shape of dst, and block_count
    plan_iw,        \* _windows: self.intersecting_window, rows r0..r1-1, columns c0..c1-1
    planned,        \* _windows: <<>>, <<"windows", list>> or <<"raised", <<>>>>
    dst_uri,        \* Destination.uri
    exists_pc,      \* Destination.exists: "idle", "url", "fetch_meta" or "done"
    exists_ret      \* Destination.exists: "pending", "True", "False" or the exception raised

\* The variables of the tile pipeline.
pipe_vars == <<grid_tiles, subset, overwrite, pipe_kind, workers, src_data, q, status, has_data,
               local_dst, remote, events, entered, left, tiles, skipped_tiles,
               failed_tiles, upload_err, transform_err, phase, run, remote_first>>

\* The variables of the command-line program around the pipeline.
cli_vars == <<version, pc, created, exit_code>>

model_vars == <<validation>>

\* The variables of the functions applied to the array of a window.
win_vars == <<masked_array, calc, nodata, ret, globals_f, executed>>

\* The variables of a retried call.
retry_vars == <<fn, attempts, waits, call_result>>

\* The variables of the parallel processing of the windows of a tile.
par_vars == <<out_files, tmp_files, par_pc, GLOBALS_cores, GLOBALS_workers,
              GLOBALS_divisor, memory, layer_calc, x_blocks, windows, pool, partial,
              vrt_srcs, dst_shape, dst_profile, file_profile, windows_has_data>>

\* The profiles a tile writes its windows with.
profiles == <<dst_profile, file_profile>>

\* The settings and the geometry a tile processes its windows with.
par_inputs == <<GLOBALS_cores, GLOBALS_workers, GLOBALS_divisor, memory, layer_calc,
                x_blocks>>

\* The variables of the geometry of a tile.
geo_vars == <<src_bounds, snap_ret, vrt_ret, input_files, src_ret, within_ret>>

\* The variables of pipe_factory.
fac_vars == <<machine_cpus, layer, pipe>>

\* The variables of a getter made by client_constructor.
aws_vars == <<service_client, constructed, client_pc, client_calls, returned>>

\* The variables of _transform on one window.
tr_vars == <<tr_array, tr_calc, tr_nodata, tr_pc, tr_log, tr_written, out_file>>

\* The variables of _windows on a destination of any shape.
plan_vars == <<plan_dst, plan_iw, planned>>

\* The variables of Destination.exists.
exists_vars == <<dst_uri, exists_pc, exists_ret>>

\* The variables of the functions that are looked at on their own.
unit_vars == <<fac_vars, aws_vars, tr_vars, plan_vars, exists_vars>>

main_vars == <<pipe_vars, cli_vars, model_vars, win_vars, retry_vars, par_vars, geo_vars>>

vars == <<main_vars, unit_vars>>

\* What the functions of a tile leave alone while the pipeline runs them.
tile_units == <<model_vars, win_vars, retry_vars, par_vars, geo_vars, unit_vars>>

\* What a pipeline stage leaves alone outside the pipeline.
beyond_pipe == <<cli_vars, tile_units>>

\* What the validation of a layer model leaves alone.
beyond_model == <<pipe_vars, cli_vars, win_vars, retry_vars, par_vars, geo_vars,
                 unit_vars>>

\* What _calc and _set_dtype leave alone.
beyond_win == <<pipe_vars, cli_vars, model_vars, retry_vars, par_vars, geo_vars,
                 unit_vars>>

\* What a retried call leaves alone.
beyond_retry == <<pipe_vars, cli_vars, model_vars, win_vars, par_vars, geo_vars,
                 unit_vars>>

\* What the geometry of a tile leaves alone.
beyond_geo == <<pipe_vars, cli_vars, model_vars, win_vars, retry_vars, par_vars,
                 unit_vars>>

\* What _process_windows leaves alone.
beyond_par == <<pipe_vars, cli_vars, model_vars, win_vars, retry_vars, geo_vars,
                 unit_vars>>

config == <<grid_tiles, subset, overwrite, pipe_kind, workers, src_data>>

result_lists == <<tiles, skipped_tiles, failed_tiles>>

\* ------------------------------------------------------------------ bags
EmptyBag == [t \in TileIdSet |-> 0]

BagOf(S) == [t \in TileIdSet |-> IF t \in S THEN 1 ELSE 0]

BagAdd(b, t, n) == [b EXCEPT ![t] = @ + n]

RECURSIVE SumOver(_, _)
SumOver(b, S) ==
    IF S = {} THEN 0
    ELSE LET t == CHOOSE x \in S : TRUE IN b[t] + SumOver(b, S \ {t})

\* len() of a result list
BagLen(b) == SumOver(b, TileIdSet)

\* ---------------------------------------------------------------- workers
\* math.ceil(a / b) for positive integers
math_ceil(a, b) == (a + b - 1) \div b

\* Pipe.workers: math.ceil(multiprocessing.cpu_count() / 2)
Pipe_workers(cpus) == math_ceil(cpus, 2)

\* CalcRasterPipe.workers: math.ceil(multiprocessing.cpu_count() / 3)
CalcRasterPipe_workers(cpus) == math_ceil(cpus, 3)

\* The class attribute workers of the pipe class of that kind.
class_workers(kind, cpus) ==
    IF kind = "calc" THEN CalcRasterPipe_workers(cpus) ELSE Pipe_workers(cpus)

\* multiprocessing.cpu_count() of the machine the pipelines below run on.
cpu_count == 4

\* ------------------------------------------------------------------ seed
\* Pipe.get_grid_tiles: a set, one tile per grid cell.
get_grid_tiles == {TILE_IDS[i] : i \in 1..NTiles}

\* The state in which create_tiles starts: every grid tile is a new Tile
\* waiting at the first stage.
StartState(seed) ==
    /\ q = [s \in 1..NStages |-> IF s = 1 THEN BagOf(seed) ELSE EmptyBag]
    /\ status = [t \in TileIdSet |-> TileInitStatus]
    /\ has_data = [t \in TileIdSet |-> FALSE]
    /\ local_dst = [t \in TileIdSet |-> FALSE]
    /\ events = [t \in TileIdSet |-> {}]
    /\ entered = [s \in 1..NStages |-> EmptyBag]
    /\ left = [s \in 1..NStages |-> EmptyBag]
    /\ tiles = EmptyBag
    /\ skipped_tiles = EmptyBag
    /\ failed_tiles = EmptyBag
    /\ upload_err = {}
    /\ transform_err = {}
    /\ phase = "running"

\* --------------------------------------------- outside the tile pipeline
\* tests/test_raster_src_tile.py: the version of the test layer, "v1.6".
LAYER_VERSION == <<"v", "1", ".", "6">>

\* pixetl() has reached pipe.create_tiles(overwrite) and cli() has not exited.
InCreateTiles ==
    /\ version = LAYER_VERSION
    /\ pc = "create_tiles"
    /\ created = {"cwd", "grid", "layer", "pipe"}
    /\ exit_code = <<>>

\* No layer model is being validated.
NoModel == validation = "none"

\* No pipeline has been built: no grid tile, nothing queued, nothing collected.
NoPipe ==
    /\ grid_tiles = {}
    /\ subset = {}
    /\ overwrite = FALSE
    /\ pipe_kind = "raster"
    /\ workers = 1
    /\ src_data = [t \in {} |-> "none"]
    /\ remote = {}
    /\ run = "first"
    /\ remote_first = {}
    /\ q = [s \in 1..NStages |-> EmptyBag]
    /\ status = [t \in TileIdSet |-> TileInitStatus]
    /\ has_data = [t \in TileIdSet |-> FALSE]
    /\ local_dst = [t \in TileIdSet |-> FALSE]
    /\ events = [t \in TileIdSet |-> {}]
    /\ entered = [s \in 1..NStages |-> EmptyBag]
    /\ left = [s \in 1..NStages |-> EmptyBag]
    /\ tiles = EmptyBag
    /\ skipped_tiles = EmptyBag
    /\ failed_tiles = EmptyBag
    /\ upload_err = {}
    /\ transform_err = {}
    /\ phase = "idle"

\* No window is being calculated or cast.
NoWindow ==
    /\ masked_array = <<>>
    /\ calc = <<>>
    /\ nodata = <<>>
    /\ ret = <<>>
    /\ globals_f = <<>>
    /\ executed = {}

\* No retried call is under way.
NoRetry ==
    /\ fn = "none"
    /\ attempts = <<>>
    /\ waits = <<>>
    /\ call_result = "pending"

\* No tile is processing its windows.
NoParallel ==
    /\ out_files = <<>>
    /\ tmp_files = {}
    /\ par_pc = "idle"
    /\ GLOBALS_cores = 1
    /\ GLOBALS_workers = 1
    /\ GLOBALS_divisor = 1
    /\ memory = 0
    /\ layer_calc = FALSE
    /\ x_blocks = 0
    /\ windows = <<>>
    /\ pool = 0
    /\ partial = {}
    /\ vrt_srcs = {}
    /\ dst_shape = <<>>
    /\ dst_profile = <<>>
    /\ file_profile = <<>>
    /\ windows_has_data = <<>>

\* No geometry of a tile is being computed.
NoGeo ==
    /\ src_bounds = <<>>
    /\ snap_ret = <<>>
    /\ vrt_ret = <<>>
    /\ input_files = {}
    /\ src_ret = <<>>
    /\ within_ret = <<>>

\* pipe_factory is not being called.
NoFactory ==
    /\ machine_cpus = 1
    /\ layer = <<>>
    /\ pipe = <<>>

\* No getter of a client exists.
NoAws ==
    /\ service_client = 0
    /\ constructed = 0
    /\ client_pc = <<>>
    /\ client_calls = <<>>
    /\ returned = {}

\* No window is being transformed.
NoTransform ==
    /\ tr_array = <<>>
    /\ tr_calc = <<>>
    /\ tr_nodata = <<>>
    /\ tr_pc = "idle"
    /\ tr_log = <<>>
    /\ tr_written = <<>>
    /\ out_file = <<>>

\* No windows are being planned.
NoPlan ==
    /\ plan_dst = <<>>
    /\ plan_iw = <<>>
    /\ planned = <<>>

\* Destination.exists is not being called.
NoExists ==
    /\ dst_uri = ""
    /\ exists_pc = "idle"
    /\ exists_ret = "pending"

\* None of the functions looked at on their own is being called.
NoUnit == NoFactory /\ NoAws /\ NoTransform /\ NoPlan /\ NoExists

\* No command-line program is running.
NoCli ==
    /\ version = <<>>
    /\ pc = "idle"
    /\ created = {}
    /\ exit_code = <<>>

\* Nothing but one of these functions is running.
NoMain == NoPipe /\ NoCli /\ NoModel /\ NoWindow /\ NoRetry /\ NoParallel /\ NoGeo

Init ==
    /\ grid_tiles = get_grid_tiles
    /\ subset \in Subsets
    /\ overwrite \in BOOLEAN
    /\ pipe_kind \in {"raster", "calc"}
    /\ workers = class_workers(pipe_kind, cpu_count)
    /\ src_data \in [get_grid_tiles -> {"none", "empty", "data"}]
    /\ remote \in InitialRemotes
    /\ run = "first"
    /\ remote_first = {}
    /\ StartState(get_grid_tiles)
    /\ InCreateTiles
    /\ NoModel /\ NoWindow /\ NoRetry /\ NoParallel /\ NoGeo /\ NoUnit

\* ------------------------------------------------------- stage plumbing
\* A stage that is fed by every stage before it, not by the one right before.
Waiting_upstream(name, t) ==
    phase = "running" /\ \E s \in 1..StageNo(name) : q[s][t] > 0

\* Stage name has tile t at its input.
Waiting(name, t) == phase = "running" /\ q[StageNo(name)][t] > 0

\* create_tiles: the qsize a stage is set up with. Stage(self.transform) and,
\* in the calc pipe, Stage(self.calculate) get qsize=self.workers; every other
\* stage is set up without a qsize and keeps the default of parallelpipe, 0.
qsize(s) ==
    IF s = StageNo("transform") \/ (pipe_kind = "calc" /\ s = StageNo("compress"))
    THEN workers
    ELSE 0

\* parallelpipe connects stage s to stage s + 1 with Queue(qsize of stage s):
\* the qsize of a stage bounds the queue it puts into, and 0 is no bound.
\* A put into a full queue blocks.
HasRoom(s, n) == qsize(s) = 0 \/ n = 0 \/ BagLen(q[s + 1]) + n <= qsize(s)

\* Stage s takes tile t from its input and yields it n times to stage s + 1.
Pass(s, t, n) ==
    /\ HasRoom(s, n)
    /\ q' = [q EXCEPT ![s] = BagAdd(@, t, -1), ![s + 1] = BagAdd(@, t, n)]
    /\ entered' = [entered EXCEPT ![s] = BagAdd(@, t, 1)]
    /\ left' = [left EXCEPT ![s] = BagAdd(@, t, n)]

\* ------------------------------------------------------------- filters
\* Pipe.filter_subset_tiles: the condition under which the tile is yielded.
subset_keeps(sub, tile_id) == sub = {} \/ (sub # {} /\ tile_id \in sub)

\* A filter with a second yield after the if: every kept tile leaves twice.
filter_yield_twice(keep) == IF keep THEN 2 ELSE 1

\* How often a filter's loop body yields the tile it is looking at.
filter_yield(keep) == IF keep THEN 1 ELSE 0

filter_subset_tiles(t) ==
    /\ Waiting("filter_subset_tiles", t)
    /\ Pass(1, t, filter_yield(subset_keeps(subset, t)))
    /\ UNCHANGED <<beyond_pipe, config, status, has_data, local_dst, remote, events, result_lists,
                   upload_err, transform_err, phase, run, remote_first>>

\* RasterSrcTile.within: the tile intersects the source footprint and does not
\* merely touch it.
within(t) == src_data[t] # "none"

filter_src_tiles(t) ==
    /\ Waiting("filter_src_tiles", t)
    /\ Pass(2, t, filter_yield(within(t)))
    /\ UNCHANGED <<beyond_pipe, config, status, has_data, local_dst, remote, events, result_lists,
                   upload_err, transform_err, phase, run, remote_first>>

\* Destination.exists: the metadata of the destination object can be fetched.
dst_exists(t) == t \in remote

\* Pipe.filter_target_tiles: the condition under which the tile is yielded.
target_keeps(ow, exists) == ow \/ ~exists

filter_target_tiles(t) ==
    /\ Waiting("filter_target_tiles", t)
    /\ Pass(3, t, filter_yield(target_keeps(overwrite, dst_exists(t))))
    /\ UNCHANGED <<beyond_pipe, config, status, has_data, local_dst, remote, events, result_lists,
                   upload_err, transform_err, phase, run, remote_first>>

\* ------------------------------------------------------------ transform
\* RasterSrcTile.transform. outcome is what _process_windows did: "raise",
\* or it returned has_data = TRUE ("data") or FALSE ("empty").
\* The result: the tile's status, the returned has_data, and whether the
\* postprocessing hook was invoked.
tile_transform_no_data_on_error(st, outcome) ==
    IF outcome = "raise"
    THEN [status |-> "failed", has_data |-> FALSE, postprocessing |-> FALSE]
    ELSE [status |-> st, has_data |-> (outcome = "data"), postprocessing |-> TRUE]

tile_transform(st, outcome) ==
    IF outcome = "raise"
    THEN [status |-> "failed", has_data |-> TRUE, postprocessing |-> FALSE]
    ELSE [status |-> st, has_data |-> (outcome = "data"), postprocessing |-> TRUE]

\* RasterPipe.transform: how often the stage yields the tile it transformed.
transform_yield(st) == 1

transform(t) ==
    /\ Waiting("transform", t)
    /\ \E raises \in BOOLEAN :
        LET outcome == IF raises THEN "raise" ELSE src_data[t]
            tr == tile_transform(status[t], outcome)
        IN  /\ status' = [status EXCEPT ![t] = tr.status]
            /\ has_data' = [has_data EXCEPT ![t] = tr.has_data]
            /\ events' = [events EXCEPT ![t] = @ \cup {"transform"} \cup
                            (IF tr.postprocessing THEN {"postprocessing"} ELSE {})]
            /\ transform_err' = IF raises THEN transform_err \cup {t} ELSE transform_err
            /\ Pass(4, t, transform_yield(tr.status))
    \* windows() creates the local output file before any window is read
    /\ local_dst' = [local_dst EXCEPT ![t] = TRUE]
    /\ UNCHANGED <<beyond_pipe, config, remote, result_lists, upload_err, phase, run, remote_first>>

\* Tile.local_src_is_empty: the transform reported no data for the tile.
local_src_is_empty(t) == ~has_data[t]

\* Pipe.delete_if_empty: an empty tile loses its local copy and is not yielded.
delete_if_empty(t) ==
    /\ Waiting("delete_if_empty", t)
    /\ IF local_src_is_empty(t)
       THEN /\ local_dst' = [local_dst EXCEPT ![t] = FALSE]
            /\ events' = [events EXCEPT ![t] = @ \cup {"rm_local_src"}]
            /\ Pass(5, t, 0)
       ELSE /\ Pass(5, t, 1)
            /\ UNCHANGED <<local_dst, events>>
    /\ UNCHANGED <<beyond_pipe, config, status, has_data, remote, result_lists, upload_err,
                   transform_err, phase, run, remote_first>>

\* ------------------------------------------------ compress / calculate
\* RasterPipe.compress (stage 6 of the raster pipe).
compress(t) ==
    /\ pipe_kind = "raster"
    /\ Waiting("compress", t)
    /\ events' = [events EXCEPT ![t] = @ \cup {"compress"}]
    /\ Pass(6, t, 1)
    /\ UNCHANGED <<beyond_pipe, config, status, has_data, local_dst, remote, result_lists, upload_err,
                   transform_err, phase, run, remote_first>>

\* CalcRasterPipe.calculate: what the stage does when update_values raised:
\* "reraise" lets the exception leave the stage, "yield" passes the tile on.
calculate_on_error == "reraise"

\* CalcRasterPipe.calculate (stage 6 of the calc pipe).
calculate(t) ==
    /\ pipe_kind = "calc"
    /\ Waiting("compress", t)
    /\ events' = [events EXCEPT ![t] = @ \cup {"update_values"}]
    /\ \E raises \in BOOLEAN :
        IF raises /\ calculate_on_error = "reraise"
        THEN /\ Pass(6, t, 0)
             /\ phase' = "aborted"
        ELSE /\ Pass(6, t, 1)
             /\ phase' = phase
    /\ UNCHANGED <<beyond_pipe, config, status, has_data, local_dst, remote, result_lists, upload_err,
                   transform_err, run, remote_first>>

\* ----------------------------------------------------- upload / cleanup
\* Tile.upload: an upload error is caught and leaves the tile failed.
tile_upload(st, raises) == IF raises THEN "failed" ELSE st

\* An upload stage that only passes on the tiles it could upload.
upload_file_yield_uploaded(st) == IF st = "failed" THEN 0 ELSE 1

\* Pipe.upload_file: how often the stage yields the tile after tile.upload().
upload_file_yield(st) == 1

upload_file(t) ==
    /\ Waiting("upload_file", t)
    /\ \E raises \in BOOLEAN :
        /\ status' = [status EXCEPT ![t] = tile_upload(@, raises)]
        /\ remote' = IF raises THEN remote ELSE remote \cup {t}
        /\ upload_err' = IF raises THEN upload_err \cup {t} ELSE upload_err
        /\ Pass(7, t, upload_file_yield(tile_upload(status[t], raises)))
    /\ events' = [events EXCEPT ![t] = @ \cup {"upload"}]
    /\ UNCHANGED <<beyond_pipe, config, has_data, local_dst, result_lists, transform_err, phase, run,
                   remote_first>>

\* Pipe.delete_file: the local copy is removed and the tile yielded.
delete_file(t) ==
    /\ Waiting("delete_file", t)
    /\ local_dst' = [local_dst EXCEPT ![t] = FALSE]
    /\ events' = [events EXCEPT ![t] = @ \cup {"rm_local_src"}]
    /\ Pass(8, t, 1)
    /\ UNCHANGED <<beyond_pipe, config, status, has_data, remote, result_lists, upload_err,
                   transform_err, phase, run, remote_first>>

\* ------------------------------------------------------------ the sink
\* The result list a tile coming out of the last stage is collected in.
result_list(st) ==
    IF st = "failed" THEN "failed_tiles"
    ELSE IF st = "skipped" THEN "skipped_tiles"
    ELSE "tiles"

\* create_tiles: the loop over pipe.results().
pipe_results(t) ==
    /\ Waiting("results", t)
    /\ q' = [q EXCEPT ![NStages] = BagAdd(@, t, -1)]
    /\ entered' = [entered EXCEPT ![NStages] = BagAdd(@, t, 1)]
    /\ LET l == result_list(status[t])
       IN  /\ tiles' = IF l = "tiles" THEN BagAdd(tiles, t, 1) ELSE tiles
           /\ skipped_tiles' = IF l = "skipped_tiles" THEN BagAdd(skipped_tiles, t, 1)
                               ELSE skipped_tiles
           /\ failed_tiles' = IF l = "failed_tiles" THEN BagAdd(failed_tiles, t, 1)
                              ELSE failed_tiles
    /\ UNCHANGED <<beyond_pipe, config, left, status, has_data, local_dst, remote, events,
                   upload_err, transform_err, phase, run, remote_first>>

Drained == \A s \in 1..NStages : \A t \in TileIdSet : q[s][t] = 0

\* create_tiles returns the three lists once every stage has finished.
Return ==
    /\ phase = "running"
    /\ Drained
    /\ phase' = "returned"
    /\ remote_first' = IF run = "first" THEN remote ELSE remote_first
    /\ UNCHANGED <<beyond_pipe, config, q, status, has_data, local_dst, remote, events, entered,
                   left, result_lists, upload_err, transform_err, run>>

\* pixetl is run again with the same arguments: new tiles, the same bucket.
StartRun ==
    /\ phase = "returned"
    /\ run = "first"
    /\ run' = "second"
    /\ q' = [s \in 1..NStages |-> IF s = 1 THEN BagOf(grid_tiles) ELSE EmptyBag]
    /\ status' = [t \in TileIdSet |-> TileInitStatus]
    /\ has_data' = [t \in TileIdSet |-> FALSE]
    /\ local_dst' = [t \in TileIdSet |-> FALSE]
    /\ events' = [t \in TileIdSet |-> {}]
    /\ entered' = [s \in 1..NStages |-> EmptyBag]
    /\ left' = [s \in 1..NStages |-> EmptyBag]
    /\ tiles' = EmptyBag
    /\ skipped_tiles' = EmptyBag
    /\ failed_tiles' = EmptyBag
    /\ upload_err' = {}
    /\ transform_err' = {}
    /\ phase' = "running"
    /\ UNCHANGED <<beyond_pipe, config, remote, remote_first>>

Next ==
    \/ \E t \in TileIdSet : filter_subset_tiles(t)
    \/ \E t \in TileIdSet : filter_src_tiles(t)
    \/ \E t \in TileIdSet : filter_target_tiles(t)
    \/ \E t \in TileIdSet : transform(t)
    \/ \E t \in TileIdSet : delete_if_empty(t)
    \/ \E t \in TileIdSet : compress(t)
    \/ \E t \in TileIdSet : calculate(t)
    \/ \E t \in TileIdSet : upload_file(t)
    \/ \E t \in TileIdSet : delete_file(t)
    \/ \E t \in TileIdSet : pipe_results(t)
    \/ Return

\* One run of the pipeline.
Spec == Init /\ [][Next]_vars

NextTwice ==
    \/ Next
    \/ StartRun

\* The pipeline run twice over the same tile set and bucket.
SpecTwice == Init /\ [][NextTwice]_vars

\* Scenario S1 (spec 8): grid 1/4000 reduced to the three subset tiles,
\* subset [10N_010E, 20N_010E, 30N_010E], overwrite=true, the source covers
\* only 10N_010E.
InitS1 ==
    /\ grid_tiles = SUBSET_IDS
    /\ subset = SUBSET_IDS
    /\ overwrite = TRUE
    /\ pipe_kind \in {"raster", "calc"}
    /\ workers = class_workers(pipe_kind, cpu_count)
    /\ src_data = [t \in SUBSET_IDS |-> IF t = "10N_010E" THEN "data" ELSE "none"]
    /\ remote \in InitialRemotes
    /\ run = "first"
    /\ remote_first = {}
    /\ StartState(SUBSET_IDS)
    /\ InCreateTiles
    /\ NoModel /\ NoWindow /\ NoRetry /\ NoParallel /\ NoGeo /\ NoUnit

SpecS1 == InitS1 /\ [][Next]_vars

\* A run whose tiles all pass the filters, on machines of 1 to MaxCpus cores.
InitQueue ==
    /\ grid_tiles = get_grid_tiles
    /\ subset = {}
    /\ overwrite \in BOOLEAN
    /\ pipe_kind \in {"raster", "calc"}
    /\ \E cpus \in 1..MaxCpus : workers = class_workers(pipe_kind, cpus)
    /\ src_data \in [get_grid_tiles -> {"empty", "data"}]
    /\ remote \in InitialRemotes
    /\ run = "first"
    /\ remote_first = {}
    /\ StartState(get_grid_tiles)
    /\ InCreateTiles
    /\ NoModel /\ NoWindow /\ NoRetry /\ NoParallel /\ NoGeo /\ NoUnit

SpecQueue == InitQueue /\ [][Next]_vars

\* ====================================================== LayerModel.version
\* Bounds of the version strings tried: the digits of the first run and of
\* the runs after it.
MaxDigits == 9

MaxFraction == 4

DIGITS == <<"0", "1", "2", "3", "4", "5", "6", "7", "8", "9">>

\* \d
IsDigit(c) == \E i \in 1..Len(DIGITS) : DIGITS[i] = c

\* s[i..j] consists of digits only (of nothing when j < i).
AllDigits(s, i, j) == \A k \in i..j : IsDigit(s[k])

\* VERSION_REGEX = r"^v\d{1,8}\.?\d{,3}\.?\d{,3}$" as re.match applies it:
\* "v", 1 to 8 digits, an optional dot, up to 3 digits, an optional dot, up
\* to 3 digits; $ matches at the end and before a newline that ends the string.
VERSION_REGEX(s) ==
    LET n == Len(s)
        ends == {n} \cup (IF n > 0 /\ s[n] = "\n" THEN {n - 1} ELSE {})
    IN  \E e \in ends : \E a \in 1..8 : \E d1 \in 0..1 : \E b \in 0..3 :
        \E d2 \in 0..1 : \E c \in 0..3 :
            /\ 1 + a + d1 + b + d2 + c = e
            /\ s[1] = "v"
            /\ AllDigits(s, 2, 1 + a)
            /\ d1 = 1 => s[2 + a] = "."
            /\ AllDigits(s, 2 + a + d1, 1 + a + d1 + b)
            /\ d2 = 1 => s[2 + a + d1 + b] = "."
            /\ AllDigits(s, 2 + a + d1 + b + d2, e)

\* LayerModel.version: Field(..., regex=VERSION_REGEX).
LayerModel_version(s) == IF VERSION_REGEX(s) THEN "ok" ELSE "ValidationError"

\* tests/test_models.py: test_version_pattern
good_versions ==
    { <<"v", "2", "0", "1", "9">>,
      <<"v", "2", "0", "1", "9", "1", "1">>,
      <<"v", "2", "0", "1", "9", "1", "1", "2", "2">>,
      <<"v", "1">>,
      <<"v", "1", ".", "2">>,
      <<"v", "1", ".", "2", ".", "3">> }

bad_versions ==
    { <<"v", "1", ".", "b", "e", "t", "a">>,
      <<"1", ".", "2">>,
      <<"v", "e", "r", "s", "i", "o", "n", "1", ".", "2", ".", "3">>,
      <<"v", ".", "1", ".", "2", ".", "3">> }

\* A run of n digits.
DigitRun(n) == [i \in 1..n |-> DIGITS[(i % 10) + 1]]

\* The version strings tried: the strings of the tests, and every string
\* prefix digits [.] digits [.] digits suffix.
VersionInputs ==
    good_versions \cup bad_versions \cup
    { p \o DigitRun(a) \o d1 \o DigitRun(b) \o d2 \o DigitRun(c) \o x :
        p \in {<<>>, <<"v">>, <<"V">>, <<"v", "v">>},
        a \in 0..MaxDigits, d1 \in {<<>>, <<".">>}, b \in 0..MaxFraction,
        d2 \in {<<>>, <<".">>}, c \in 0..MaxFraction,
        x \in {<<>>, <<"\n">>, <<"b">>, <<".">>} }

InitVersion ==
    /\ version \in VersionInputs
    /\ pc = "idle"
    /\ created = {}
    /\ exit_code = <<>>
    /\ validation = "none"
    /\ NoPipe /\ NoWindow /\ NoRetry /\ NoParallel /\ NoGeo /\ NoUnit

\* LayerModel(**layer_dict): the version field is validated.
LayerModel ==
    /\ pc = "idle"
    /\ validation = "none"
    /\ validation' = LayerModel_version(version)
    /\ UNCHANGED beyond_model

NextVersion == LayerModel

SpecVersion == InitVersion /\ [][NextVersion]_vars

\* ============================================================== pixetl.py
\* utils.verify_version_pattern: the version matches the version pattern.
verify_version_pattern(v) == VERSION_REGEX(v)

\* The versions the program is started with: one that is valid and one of
\* the bad versions of test_version_pattern.
CliVersions == {LAYER_VERSION, <<"v", "1", ".", "b", "e", "t", "a">>}

\* The program is started: nothing is created, no pipeline exists yet.
InitCli ==
    /\ grid_tiles = get_grid_tiles
    /\ subset \in Subsets
    /\ overwrite \in BOOLEAN
    /\ pipe_kind \in {"raster", "calc"}
    /\ workers = class_workers(pipe_kind, cpu_count)
    /\ src_data \in [get_grid_tiles -> {"none", "empty", "data"}]
    /\ remote \in InitialRemotes
    /\ run = "first"
    /\ remote_first = {}
    /\ q = [s \in 1..NStages |-> EmptyBag]
    /\ status = [t \in TileIdSet |-> TileInitStatus]
    /\ has_data = [t \in TileIdSet |-> FALSE]
    /\ local_dst = [t \in TileIdSet |-> FALSE]
    /\ events = [t \in TileIdSet |-> {}]
    /\ entered = [s \in 1..NStages |-> EmptyBag]
    /\ left = [s \in 1..NStages |-> EmptyBag]
    /\ tiles = EmptyBag
    /\ skipped_tiles = EmptyBag
    /\ failed_tiles = EmptyBag
    /\ upload_err = {}
    /\ transform_err = {}
    /\ phase = "idle"
    /\ version \in CliVersions
    /\ pc = "pixetl"
    /\ created = {}
    /\ exit_code = <<>>
    /\ NoModel /\ NoWindow /\ NoRetry /\ NoParallel /\ NoGeo /\ NoUnit

\* pixetl: utils.set_cwd() and utils.set_available_memory().
pixetl_set_cwd ==
    /\ pc = "pixetl"
    /\ created' = created \cup {"cwd"}
    /\ pc' = "verify_version_pattern"
    /\ UNCHANGED <<pipe_vars, tile_units, version, exit_code>>

\* A pixetl() that logs a version that does not match and goes on.
pixetl_verify_version_no_raise ==
    /\ pc = "verify_version_pattern"
    /\ pc' = "grid_factory"
    /\ UNCHANGED <<pipe_vars, tile_units, version, created, exit_code>>

\* pixetl: if not utils.verify_version_pattern(version): raise ValueError.
pixetl_verify_version ==
    /\ pc = "verify_version_pattern"
    /\ pc' = IF verify_version_pattern(version) THEN "grid_factory" ELSE "except"
    /\ UNCHANGED <<pipe_vars, tile_units, version, created, exit_code>>

\* pixetl: grid = grid_factory(grid_name)
pixetl_grid_factory ==
    /\ pc = "grid_factory"
    /\ created' = created \cup {"grid"}
    /\ pc' = "layer_factory"
    /\ UNCHANGED <<pipe_vars, tile_units, version, exit_code>>

\* pixetl: layer = layer_factory(name=name, version=version, grid=grid, field=field)
pixetl_layer_factory ==
    /\ pc = "layer_factory"
    /\ created' = created \cup {"layer"}
    /\ pc' = "pipe_factory"
    /\ UNCHANGED <<pipe_vars, tile_units, version, exit_code>>

\* pixetl: pipe = pipe_factory(layer, subset)
pixetl_pipe_factory ==
    /\ pc = "pipe_factory"
    /\ created' = created \cup {"pipe"}
    /\ pc' = "call_create_tiles"
    /\ UNCHANGED <<pipe_vars, tile_units, version, exit_code>>

\* pixetl: pipe.create_tiles(overwrite) is called; get_grid_tiles seeds the
\* first stage.
pixetl_create_tiles ==
    /\ pc = "call_create_tiles"
    /\ pc' = "create_tiles"
    /\ q' = [q EXCEPT ![1] = BagOf(grid_tiles)]
    /\ phase' = "running"
    /\ UNCHANGED <<config, status, has_data, local_dst, remote, events, entered, left,
                   result_lists, upload_err, transform_err, run, remote_first,
                   tile_units, version, created, exit_code>>

\* pixetl: create_tiles returned; the work directory is removed and the three
\* lists are returned.
pixetl_return ==
    /\ pc = "create_tiles"
    /\ phase = "returned"
    /\ created' = created \ {"cwd"}
    /\ pc' = "returned"
    /\ UNCHANGED <<pipe_vars, tile_units, version, exit_code>>

\* pixetl: except Exception: the work directory is removed and the exception
\* raised again.
pixetl_except ==
    /\ \/ pc = "except"
       \/ pc = "create_tiles" /\ phase = "aborted"
    /\ created' = created \ {"cwd"}
    /\ pc' = "raised"
    /\ UNCHANGED <<pipe_vars, tile_units, version, exit_code>>

\* The exit code of the interpreter when an exception leaves cli().
uncaught_exception_exit == 1

\* A cli() that only logs the failed tiles.
cli_exit_code_logs_only(nb_tiles, nb_skipped_tiles, nb_failed_tiles) == 0

\* cli: sys.exit("Program terminated with Errors...") if nb_failed_tiles,
\* otherwise the function returns.
cli_exit_code(nb_tiles, nb_skipped_tiles, nb_failed_tiles) ==
    IF nb_failed_tiles # 0 THEN 1 ELSE 0

\* cli: what follows the call of pixetl().
cli ==
    /\ pc \in {"returned", "raised"}
    /\ exit_code' = IF pc = "returned"
                    THEN <<cli_exit_code(BagLen(tiles), BagLen(skipped_tiles),
                                         BagLen(failed_tiles))>>
                    ELSE <<uncaught_exception_exit>>
    /\ pc' = "exited"
    /\ UNCHANGED <<pipe_vars, tile_units, version, created>>

NextCli ==
    \/ pixetl_set_cwd
    \/ pixetl_verify_version
    \/ pixetl_grid_factory
    \/ pixetl_layer_factory
    \/ pixetl_pipe_factory
    \/ pixetl_create_tiles
    \/ Next
    \/ pixetl_return
    \/ pixetl_except
    \/ cli

\* One run of the command-line program.
SpecCli == InitCli /\ [][NextCli]_vars

\* ========================================================= pipe_factory

\* What the factory leaves alone.
beyond_fac == <<main_vars, aws_vars, tr_vars, plan_vars, exists_vars>>

\* The classes of gfw_pixetl.layers; "Layer" is the base class.
LayerClasses == {"VectorSrcLayer", "RasterSrcLayer", "Layer"}

\* The attribute calc of a layer: not set at all, None, or an expression.
LayerCalcs == {"absent", "None", "A+1"}

\* hasattr(layer, "calc")
hasattr_calc(l) == l.calc # "absent"

\* The layer has a calc expression.
has_calc_expression(l) == l.calc \notin {"absent", "None"}

\* pipe_factory(layer, subset): the class of the pipe and its workers.
pipe_factory(l, cpus) ==
    IF l.class = "VectorSrcLayer" THEN <<"VectorPipe", Pipe_workers(cpus)>>
    ELSE IF l.class = "RasterSrcLayer" /\ hasattr_calc(l)
    THEN <<"CalcRasterPipe", CalcRasterPipe_workers(cpus)>>
    ELSE IF l.class = "RasterSrcLayer" THEN <<"RasterPipe", Pipe_workers(cpus)>>
    ELSE <<"ValueError", 0>>

\* A layer of any class on a machine of 1 to MaxCpus cores.
InitFactory ==
    /\ machine_cpus \in 1..MaxCpus
    /\ layer \in [class : LayerClasses, calc : LayerCalcs]
    /\ pipe = <<>>
    /\ NoMain /\ NoAws /\ NoTransform /\ NoPlan /\ NoExists

Call_pipe_factory ==
    /\ pipe = <<>>
    /\ pipe' = pipe_factory(layer, machine_cpus)
    /\ UNCHANGED <<beyond_fac, machine_cpus, layer>>

NextFactory == Call_pipe_factory

SpecFactory == InitFactory /\ [][NextFactory]_vars

\* ================================================ the array of a window
\* The cells of the arrays tried.
MaxCells == 3

\* The values of the cells: 0 and 1, 5 (the nodata of test__set_dtype) and
\* 261, which does not fit the destination dtype.
CellValues == {0, 1, 5, 261}

Cells == [data : CellValues, mask : BOOLEAN]

\* A MaskedArray, flattened: a sequence of cells; its length is its shape.
Arrays == UNION {[1..n -> Cells] : n \in 0..MaxCells}

\* dst.nodata: none, or a value of the destination dtype.
NoDataValues == {<<>>, <<0>>, <<5>>}

\* The bits of the destination dtype, uint8 in the test layer.
DTYPE_BITS == 8

\* ndarray.astype(dst.dtype) of one value.
astype(v) == v % (2 ^ DTYPE_BITS)

\* np.ma.filled(array, fill_value): the data, with fill_value in masked cells.
ma_filled(array, fill_value) ==
    [i \in 1..Len(array) |-> IF array[i].mask THEN fill_value ELSE array[i].data]

\* A cast that takes the underlying data whether or not there is a nodata.
_set_dtype_data_only(array, nd) ==
    [i \in 1..Len(array) |-> astype(array[i].data)]

\* RasterSrcTile._set_dtype; nd # <<>> is dst.has_no_data().
_set_dtype(array, nd) ==
    IF nd # <<>>
    THEN [i \in 1..Len(array) |-> astype(ma_filled(array, nd[1])[i])]
    ELSE [i \in 1..Len(array) |-> astype(array[i].data)]

InitSetDtype ==
    /\ masked_array \in Arrays
    /\ nodata \in NoDataValues
    /\ calc = <<>>
    /\ ret = <<>>
    /\ globals_f = <<>>
    /\ executed = {}
    /\ NoPipe /\ NoCli /\ NoModel /\ NoRetry /\ NoParallel /\ NoGeo /\ NoUnit

\* _transform: array = self._set_dtype(masked_array, window)
Call_set_dtype ==
    /\ ret = <<>>
    /\ ret' = <<_set_dtype(masked_array, nodata)>>
    /\ UNCHANGED <<beyond_win, masked_array, calc, nodata, globals_f, executed>>

NextSetDtype == Call_set_dtype

SpecSetDtype == InitSetDtype /\ [][NextSetDtype]_vars

\* ----------------------------------------------------------------- _calc
\* How often _calc is called on the same array with the same expression.
MaxCalls == 2

\* tests/test_raster_src_tile.py, test__calc: "A+1", "A+1*5", "A*5+1".
CALC_A_PLUS_1 == <<"A", "+", "1">>

CALC_A_PLUS_1_TIMES_5 == <<"A", "+", "1", "*", "5">>

CALC_A_TIMES_5_PLUS_1 == <<"A", "*", "5", "+", "1">>

\* Strings that are Python expressions but more than arithmetic on A:
\* "A.sum()", "A[0]", "B+1", "__import__('os').system('id')".
CALC_OTHER ==
    { <<"A", ".", "sum", "(", ")">>,
      <<"A", "[", "0", "]">>,
      <<"B", "+", "1">>,
      <<"__import__", "(", "'os'", ")", ".", "system", "(", "'id'", ")">> }

\* The values of layer.calc tried; <<>> is None.
CalcInputs ==
    {<<>>, CALC_A_PLUS_1, CALC_A_PLUS_1_TIMES_5, CALC_A_TIMES_5_PLUS_1} \cup CALC_OTHER

\* The positions of a token in an expression.
Positions(ts, tok) == {i \in 1..Len(ts) : ts[i] = tok}

Last(S) == CHOOSE i \in S : \A j \in S : j <= i

\* An integer literal of one digit.
IsNumber(tok) == IsDigit(tok)

NumberOf(tok) == (CHOOSE i \in 1..Len(DIGITS) : DIGITS[i] = tok) - 1

\* The expression is operand (operator operand)* over A, literals, + and *.
IsArithmetic(ts) ==
    /\ Len(ts) % 2 = 1
    /\ \A i \in 1..Len(ts) :
          IF i % 2 = 1 THEN ts[i] = "A" \/ IsNumber(ts[i]) ELSE ts[i] \in {"+", "*"}

\* The value of an operand when A is bound to a.
PyOperand(tok, a) == IF tok = "A" THEN a ELSE NumberOf(tok)

\* A sum of operands.
RECURSIVE PySumOnly(_, _)
PySumOnly(ts, a) ==
    IF Positions(ts, "+") = {} THEN PyOperand(ts[1], a)
    ELSE LET k == Last(Positions(ts, "+"))
         IN  PySumOnly(SubSeq(ts, 1, k - 1), a) + PyOperand(ts[k + 1], a)

\* A product of operands, as Python evaluates it.
RECURSIVE PyTerm(_, _)
PyTerm(ts, a) ==
    IF Positions(ts, "*") = {} THEN PyOperand(ts[1], a)
    ELSE LET k == Last(Positions(ts, "*"))
         IN  PyTerm(SubSeq(ts, 1, k - 1), a) * PyOperand(ts[k + 1], a)

\* An evaluation in which + binds tighter than *.
RECURSIVE PyExpr_plus_first(_, _)
PyExpr_plus_first(ts, a) ==
    IF Positions(ts, "*") = {} THEN PySumOnly(ts, a)
    ELSE LET k == Last(Positions(ts, "*"))
         IN  PyExpr_plus_first(SubSeq(ts, 1, k - 1), a)
                * PySumOnly(SubSeq(ts, k + 1, Len(ts)), a)

\* The value of the expression of "return <calc>" as Python evaluates it when
\* A is bound to a: * binds tighter than +, both associate to the left.
RECURSIVE PyExpr(_, _)
PyExpr(ts, a) ==
    IF Positions(ts, "+") = {} THEN PyTerm(ts, a)
    ELSE LET k == Last(Positions(ts, "+"))
         IN  PyExpr(SubSeq(ts, 1, k - 1), a) + PyTerm(SubSeq(ts, k + 1, Len(ts)), a)

\* f(array) for an arithmetic expression: numpy applies it cell by cell; a
\* masked cell stays masked and keeps its data.
f(array, expr) ==
    [i \in 1..Len(array) |->
        [data |-> IF array[i].mask THEN array[i].data ELSE PyExpr(expr, array[i].data),
         mask |-> array[i].mask]]

\* RasterSrcTile._calc for None and for arithmetic expressions.
_calc(array, expr) == IF expr # <<>> THEN f(array, expr) ELSE array

InitCalc ==
    /\ masked_array \in Arrays
    /\ calc \in CalcInputs
    /\ nodata = <<>>
    /\ ret = <<>>
    /\ globals_f = <<>>
    /\ executed = {}
    /\ NoPipe /\ NoCli /\ NoModel /\ NoRetry /\ NoParallel /\ NoGeo /\ NoUnit

\* _transform: masked_array = self._calc(masked_array, window).
\* With an expression, exec(funcstr, globals()) binds the module global f to
\* the function returning the expression, and f(array) runs it, whatever it
\* is; what code that is not arithmetic returns is not determined here.
Call_calc ==
    /\ Len(ret) < MaxCalls
    /\ IF calc = <<>>
       THEN /\ ret' = Append(ret, _calc(masked_array, calc))
            /\ UNCHANGED <<globals_f, executed>>
       ELSE /\ globals_f' = <<calc>>
            /\ executed' = executed \cup {calc}
            /\ IF IsArithmetic(calc)
               THEN ret' = Append(ret, _calc(masked_array, calc))
               ELSE \E r \in {masked_array, <<>>} : ret' = Append(ret, r)
    /\ UNCHANGED <<beyond_win, masked_array, calc, nodata>>

NextCalc == Call_calc

SpecCalc == InitCalc /\ [][NextCalc]_vars

\* ================================================================ @retry
\* @retry(stop_max_attempt_number=7, wait_exponential_multiplier=1000,
\*        wait_exponential_max=300000)
stop_max_attempt_number == 7

wait_exponential_multiplier == 1000

wait_exponential_max == 300000

\* _file_does_not_exist: the messages that mean the file cannot be accessed.
FILE_DOES_NOT_EXIST_ERRORS ==
    { "does not exist in the file system, and is not recognized as a supported dataset name",
      "The specified key does not exist",
      "No such file or directory",
      "not recognized as a supported file format",
      "Access Denied" }

\* Messages of I/O errors that pass: a failed block read, a timeout.
TRANSIENT_ERRORS == {"IReadBlock failed", "Operation timed out"}

\* What rasterio.open / vrt.read may raise.
RasterErrors ==
    [cls : {"RasterioIOError"}, msg : FILE_DOES_NOT_EXIST_ERRORS \cup TRANSIENT_ERRORS]
        \cup {[cls |-> "Exception", msg |-> "Access Denied"]}

\* The attempt went through.
NoError == [cls |-> "none", msg |-> ""]

\* sources._file_does_not_exist
_file_does_not_exist(e) ==
    e.cls = "RasterioIOError" /\ e.msg \in FILE_DOES_NOT_EXIST_ERRORS

\* errors.retry_if_rasterio_error, the predicate of fetch_meta.
retry_if_rasterio_error(e) == e.cls = "RasterioIOError"

\* errors.retry_if_rasterio_io_error, the predicate of _read_window: an I/O
\* error that is neither not-found nor unknown-format.
retry_if_rasterio_io_error(e) ==
    e.cls = "RasterioIOError" /\ ~_file_does_not_exist(e)

\* A fetch_meta whose except clause raises every exception again as it is.
fetch_meta_except_reraise(e) == e

\* Raster.fetch_meta, the except clause: the exception that leaves the body
\* when opening the file raised e.
fetch_meta_except(e) ==
    IF _file_does_not_exist(e)
    THEN [cls |-> "FileNotFoundError", msg |-> e.msg]
    ELSE e

\* RasterSrcTile._read_window, the except clause: a RasterioIOError is logged
\* and raised again; any other exception is not caught.
_read_window_except(e) == e

Min(a, b) == IF a < b THEN a ELSE b

\* A wait that starts at the multiplier.
exponential_sleep_from_multiplier(previous_attempt_number) ==
    Min(wait_exponential_multiplier * 2 ^ (previous_attempt_number - 1),
        wait_exponential_max)

\* retrying.Retrying.exponential_sleep: the milliseconds slept after attempt
\* previous_attempt_number failed.
exponential_sleep(previous_attempt_number) ==
    Min(wait_exponential_multiplier * 2 ^ previous_attempt_number, wait_exponential_max)

\* The exception that leaves the body of the decorated function name when
\* the rasterio call in it raised e.
except_clause(name, e) ==
    IF name = "fetch_meta" THEN fetch_meta_except(e) ELSE _read_window_except(e)

\* The retry_on_exception of the decorator of the function name.
retry_on_exception(name, e) ==
    IF name = "fetch_meta" THEN retry_if_rasterio_error(e)
    ELSE retry_if_rasterio_io_error(e)

\* retrying.Retrying.call: one attempt of the decorated function name.
Retrying(name) ==
    /\ fn = name
    /\ call_result = "pending"
    /\ \E e \in RasterErrors \cup {NoError} :
        LET attempt_number == Len(attempts) + 1
            raised == except_clause(name, e)
        IN  /\ attempts' = Append(attempts, e)
            /\ IF e = NoError
               THEN call_result' = "returned" /\ waits' = waits
               ELSE IF ~retry_on_exception(name, raised)
               THEN call_result' = raised.cls /\ waits' = waits
               ELSE IF attempt_number >= stop_max_attempt_number
               THEN call_result' = raised.cls /\ waits' = waits
               ELSE /\ call_result' = "pending"
                    /\ waits' = Append(waits, exponential_sleep(attempt_number))
    /\ UNCHANGED <<beyond_retry, fn>>

\* Raster.fetch_meta under its @retry.
fetch_meta == Retrying("fetch_meta")

\* RasterSrcTile._read_window under its @retry.
_read_window == Retrying("_read_window")

InitRetry ==
    /\ fn \in {"fetch_meta", "_read_window"}
    /\ attempts = <<>>
    /\ waits = <<>>
    /\ call_result = "pending"
    /\ NoPipe /\ NoCli /\ NoModel /\ NoWindow /\ NoParallel /\ NoGeo /\ NoUnit

NextRetry ==
    \/ fetch_meta
    \/ _read_window

SpecRetry == InitRetry /\ [][NextRetry]_vars

\* ==================================================== Destination.exists
\* Destination.url: f"/vsis3/{self.bucket}/{self.uri}"
Destination_url(uri) == <<"/vsis3/", "bucket", "/", uri>>

\* The destination of a tile whose uri is empty or the key of the tile.
InitExists ==
    /\ dst_uri \in {"", "layer/v1.6/raster/10N_010E.tif"}
    /\ exists_pc = "url"
    /\ exists_ret = "pending"
    /\ fn = "fetch_meta"
    /\ attempts = <<>>
    /\ waits = <<>>
    /\ call_result = "pending"
    /\ NoPipe /\ NoCli /\ NoModel /\ NoWindow /\ NoParallel /\ NoGeo
    /\ NoFactory /\ NoAws /\ NoTransform /\ NoPlan

\* exists: if not self.url: raise Exception("Tile URL is not set")
exists_url ==
    /\ exists_pc = "url"
    /\ IF Destination_url(dst_uri) = <<>>
       THEN exists_pc' = "done" /\ exists_ret' = "Exception"
       ELSE exists_pc' = "fetch_meta" /\ exists_ret' = exists_ret
    /\ UNCHANGED <<main_vars, fac_vars, aws_vars, tr_vars, plan_vars, dst_uri>>

\* exists: self.fetch_meta(), one attempt of the retried call
exists_fetch_meta ==
    /\ exists_pc = "fetch_meta"
    /\ fetch_meta

\* exists: return True after fetch_meta; except FileNotFoundError: return
\* False; any other exception leaves exists.
exists_except(result) ==
    IF result = "returned" THEN "True"
    ELSE IF result = "FileNotFoundError" THEN "False"
    ELSE result

\* exists: the retried call is over.
exists_return ==
    /\ exists_pc = "fetch_meta"
    /\ call_result # "pending"
    /\ exists_ret' = exists_except(call_result)
    /\ exists_pc' = "done"
    /\ UNCHANGED <<main_vars, fac_vars, aws_vars, tr_vars, plan_vars, dst_uri>>

NextExists ==
    \/ exists_url
    \/ exists_fetch_meta
    \/ exists_return

SpecExists == InitExists /\ [][NextExists]_vars

\* ==================================================== client_constructor
\* The threads that call one getter, and the calls each of them makes.
NThreads == 3

Threads == 1..NThreads

\* What a getter leaves alone.
beyond_aws == <<main_vars, fac_vars, tr_vars, plan_vars, exists_vars>>

\* client_constructor(service, endpoint_url): service_client = None, and the
\* closure client is returned; no thread has called it yet.
InitAws ==
    /\ service_client = 0
    /\ constructed = 0
    /\ client_pc = [t \in Threads |-> "idle"]
    /\ client_calls = [t \in Threads |-> 0]
    /\ returned = {}
    /\ NoMain /\ NoFactory /\ NoTransform /\ NoPlan /\ NoExists

\* client(): if service_client is None
client_is_none(t) ==
    /\ client_pc[t] = "idle"
    /\ client_calls[t] < MaxCalls
    /\ client_pc' = [client_pc EXCEPT ![t] = IF service_client = 0 THEN "boto3.client"
                                             ELSE "return"]
    /\ UNCHANGED <<beyond_aws, service_client, constructed, client_calls, returned>>

\* client(): service_client = boto3.client(service, ...), a new client
boto3_client(t) ==
    /\ client_pc[t] = "boto3.client"
    /\ constructed' = constructed + 1
    /\ service_client' = constructed + 1
    /\ client_pc' = [client_pc EXCEPT ![t] = "return"]
    /\ UNCHANGED <<beyond_aws, client_calls, returned>>

\* client(): return service_client
client_return(t) ==
    /\ client_pc[t] = "return"
    /\ returned' = returned \cup {service_client}
    /\ client_calls' = [client_calls EXCEPT ![t] = @ + 1]
    /\ client_pc' = [client_pc EXCEPT ![t] = "idle"]
    /\ UNCHANGED <<beyond_aws, service_client, constructed>>

NextAws ==
    \/ \E t \in Threads : client_is_none(t)
    \/ \E t \in Threads : boto3_client(t)
    \/ \E t \in Threads : client_return(t)

\* The threads of one process calling the same getter.
SpecAws == InitAws /\ [][NextAws]_vars

\* ============================================================ _transform
\* What _transform leaves alone.
beyond_tr == <<main_vars, fac_vars, aws_vars, plan_vars, exists_vars>>

\* A check that only looks at the shape of the array.
_block_has_data_shape_only(array) == Len(array) > 0

\* RasterSrcTile._block_has_data: the array has cells and one of them is not
\* masked.
_block_has_data(array) ==
    Len(array) > 0 /\ Cardinality({i \in 1..Len(array) : ~array[i].mask}) # 0

\* _transform(vrt, window, write_to_seperate_files) is called: the window is
\* about to be read.
InitTransform ==
    /\ tr_array \in Arrays
    /\ tr_calc \in {<<>>, CALC_A_PLUS_1}
    /\ tr_nodata \in {<<>>, <<0>>}
    /\ tr_pc = "_read_window"
    /\ tr_log = <<>>
    /\ tr_written = <<>>
    /\ out_file = <<>>
    /\ NoMain /\ NoFactory /\ NoAws /\ NoPlan /\ NoExists

\* masked_array = self._read_window(vrt, window), which may raise, followed
\* by the test of _block_has_data.
tr_read_window ==
    /\ tr_pc = "_read_window"
    /\ \E raises \in BOOLEAN :
          tr_pc' = IF raises THEN "raised"
                   ELSE IF _block_has_data(tr_array) THEN "_calc"
                   ELSE "return"
    /\ tr_log' = Append(tr_log, "_read_window")
    /\ UNCHANGED <<beyond_tr, tr_array, tr_calc, tr_nodata, tr_written, out_file>>

\* masked_array = self._calc(masked_array, window)
tr_calc_window ==
    /\ tr_pc = "_calc"
    /\ tr_array' = _calc(tr_array, tr_calc)
    /\ tr_log' = Append(tr_log, "_calc")
    /\ tr_pc' = "_set_dtype"
    /\ UNCHANGED <<beyond_tr, tr_calc, tr_nodata, tr_written, out_file>>

\* array = self._set_dtype(masked_array, window)
tr_set_dtype ==
    /\ tr_pc = "_set_dtype"
    /\ tr_array' = _set_dtype(tr_array, tr_nodata)
    /\ tr_log' = Append(tr_log, "_set_dtype")
    /\ tr_pc' = "_write_window"
    /\ UNCHANGED <<beyond_tr, tr_calc, tr_nodata, tr_written, out_file>>

\* out_file = self._write_window(array, window, write_to_seperate_files),
\* which may raise.
tr_write_window ==
    /\ tr_pc = "_write_window"
    /\ tr_log' = Append(tr_log, "_write_window")
    /\ \E raises \in BOOLEAN :
          IF raises
          THEN tr_pc' = "raised" /\ UNCHANGED <<tr_written, out_file>>
          ELSE /\ tr_pc' = "returned"
               /\ tr_written' = Append(tr_written, tr_array)
               /\ out_file' = <<"path">>
    /\ UNCHANGED <<beyond_tr, tr_array, tr_calc, tr_nodata>>

\* else: out_file = None; return out_file
tr_return_none ==
    /\ tr_pc = "return"
    /\ out_file' = <<"None">>
    /\ tr_pc' = "returned"
    /\ UNCHANGED <<beyond_tr, tr_array, tr_calc, tr_nodata, tr_log, tr_written>>

NextTransform ==
    \/ tr_read_window
    \/ tr_calc_window
    \/ tr_set_dtype
    \/ tr_write_window
    \/ tr_return_none

\* _transform on one window.
SpecTransform == InitTransform /\ [][NextTransform]_vars

\* ============================================== _windows, pixel by pixel
\* The largest width and height of a destination, in pixels.
MaxSide == 4

\* The largest height and width of a block, in pixels.
MaxBlockSide == 2

\* What _windows leaves alone.
beyond_plan == <<main_vars, fac_vars, aws_vars, tr_vars, exists_vars>>

Max(a, b) == IF a >= b THEN a ELSE b

\* The smallest and the largest number of a set.
Least(S) == CHOOSE m \in S : \A n \in S : m <= n

Greatest(S) == CHOOSE m \in S : \A n \in S : n <= m

\* rasterio, dst.block_window(1, i, j): the window of the block in block row i
\* and block column j; h, w = block_shapes[0], the height and the width of
\* a block.
block_window(dst, i, j) ==
    [row_off |-> i * dst.block_shape[1],
     height |-> Min(dst.block_shape[1], dst.height - i * dst.block_shape[1]),
     col_off |-> j * dst.block_shape[2],
     width |-> Min(dst.block_shape[2], dst.width - j * dst.block_shape[2])]

\* RasterSrcTile._union_blocks: rasterio.windows.union of the block windows
\* block_window(1, i, j) for i in range(min_i, max_i), j in range(min_j, max_j),
\* the window from the least start to the greatest stop of their ranges.
_union_blocks(dst, min_i, min_j, max_i, max_j) ==
    LET blocks == {block_window(dst, i, j) : i \in min_i..(max_i - 1), j \in min_j..(max_j - 1)}
    IN [r0 |-> Least({b.row_off : b \in blocks}),
        r1 |-> Greatest({b.row_off + b.height : b \in blocks}),
        c0 |-> Least({b.col_off : b \in blocks}),
        c1 |-> Greatest({b.col_off + b.width : b \in blocks})]

\* window.intersection(self.intersecting_window)
intersection(a, b) ==
    [r0 |-> Max(a.r0, b.r0), r1 |-> Min(a.r1, b.r1),
     c0 |-> Max(a.c0, b.c0), c1 |-> Min(a.c1, b.c1)]

\* _windows: x_blocks = int(dst.width / dst.block_shapes[0][0]) and
\* y_blocks = int(dst.height / dst.block_shapes[0][1]); x_blocks bounds i,
\* the block row of block_window, and y_blocks bounds j, the block column.
blocks_per_side(dst) ==
    <<dst.width \div dst.block_shape[1], dst.height \div dst.block_shape[2]>>

\* _windows(dst) on a destination of any shape: the list of the windows, or
\* an error when a block window lies outside the destination (its height or
\* width is negative) and rasterio refuses it.
_windows_px(dst, iw, refuses) ==
    LET block_count == dst.block_count
        xb == blocks_per_side(dst)[1]
        yb == blocks_per_side(dst)[2]
        steps_i == (xb + block_count - 1) \div block_count
        steps_j == (yb + block_count - 1) \div block_count
        At(k) ==
            LET i == (k \div steps_j) * block_count
                j == (k % steps_j) * block_count
            IN _union_blocks(dst, i, j, Min(i + block_count, xb),
                             Min(j + block_count, yb))
        outside == \E k \in 0..(steps_i * steps_j - 1) :
                      At(k).r1 < At(k).r0 \/ At(k).c1 < At(k).c0
        loop[k \in 0..(steps_i * steps_j)] ==
            IF k = steps_i * steps_j THEN <<>>
            ELSE LET window == intersection(At(k), iw)
                 IN (IF window.r0 < window.r1 /\ window.c0 < window.c1
                     THEN <<window>> ELSE <<>>) \o loop[k + 1]
    IN IF outside /\ refuses THEN <<"raised", <<>>>> ELSE <<"windows", loop[0]>>

\* The windows inside a destination of width x height pixels.
WindowsIn(width, height) ==
    {w \in [r0 : 0..height, r1 : 0..height, c0 : 0..width, c1 : 0..width] :
        w.r0 < w.r1 /\ w.c0 < w.c1}

\* A destination of up to MaxSide x MaxSide pixels with blocks of up to
\* MaxBlockSide x MaxBlockSide pixels, and an intersecting window inside it.
InitPlan ==
    /\ plan_dst \in [width : 1..MaxSide, height : 1..MaxSide,
                      block_shape : (1..MaxBlockSide) \X (1..MaxBlockSide),
                      block_count : 1..2]
    /\ plan_iw \in WindowsIn(plan_dst.width, plan_dst.height)
    /\ planned = <<>>
    /\ NoMain /\ NoFactory /\ NoAws /\ NoTransform /\ NoExists

Call_windows ==
    /\ planned = <<>>
    /\ \E refuses \in BOOLEAN : planned' = _windows_px(plan_dst, plan_iw, refuses)
    /\ UNCHANGED <<beyond_plan, plan_dst, plan_iw>>

NextPlan == Call_windows

SpecPlan == InitPlan /\ [][NextPlan]_vars

\* ====================================================== _process_windows
\* The largest number of windows in the list windows() returns.
NWindows == 4

\* The largest number of blocks on a side of the destination tile.
MaxBlocks == 3

Windows == 1..NWindows

\* A file name made of the tile and the column offset of the window.
file_name_without_row(tile_id, col_off, row_off) == <<tile_id, col_off, 0>>

\* _write_window_to_separate_file:
\* file_name = f"{self.tile_id}_{dst_window.col_off}_{dst_window.row_off}.tif"
file_name(tile_id, col_off, row_off) == <<tile_id, col_off, row_off>>

\* The tile whose windows are processed.
par_tile_id == TILE_IDS[1]

\* The temporary file of window w: os.path.join(self.tmp_dir, file_name).
WindowFile(w) == file_name(par_tile_id, windows[w][2], windows[w][1])

\* The composite VRT: {tile_id}.vrt in tmp_dir.
VrtFile == <<"vrt", 0, 0>>

\* all_files = [f for f in out_files if f is not None]
all_files == {WindowFile(w) : w \in {v \in DOMAIN out_files : out_files[v] = "file"}}

\* blockxsize * blockysize * itemsize, for blocks of 2 x 2 pixels of uint8.
_block_byte_size == 4

\* utils.get_co_workers(): floor(cores / workers).
get_co_workers == GLOBALS_cores \div GLOBALS_workers

\* floor(sqrt(x)) for x >= 0.
floor_sqrt(x) == CHOOSE r \in 0..x : r * r <= x /\ (r + 1) * (r + 1) > x

\* The divisor _max_blocks divides the memory of a process by.
_max_blocks_divisor ==
    LET co_workers == GLOBALS_cores \div GLOBALS_workers
        divisor == IF co_workers >= 2 THEN GLOBALS_divisor * co_workers
                   ELSE GLOBALS_divisor
    IN IF layer_calc THEN divisor ^ 2 ELSE divisor

\* floor(sqrt((memory / divisor) / bytes_per_block)) ** 2
_max_blocks ==
    floor_sqrt(memory \div (_max_blocks_divisor * _block_byte_size)) ^ 2

\* The windows the intersecting window of a tile of n x n blocks can be: the
\* block rows r0..r1 and the block columns c0..c1.
IntersectingWindows(n) ==
    {iw \in [r0 : 0..(n - 1), r1 : 0..(n - 1), c0 : 0..(n - 1), c1 : 0..(n - 1)] :
        iw.r0 <= iw.r1 /\ iw.c0 <= iw.c1}

\* An intersecting window that snapped to no block at all: every window of
\* the tile raises "windows do not intersect" and is dropped.
NoIntersection == [r0 |-> 0, r1 |-> -1, c0 |-> 0, c1 |-> -1]

\* A _windows whose outer loop runs over the block columns.
_windows_column_major(xb, yb, block_count, iw) ==
    LET steps_i == (xb + block_count - 1) \div block_count
        steps_j == (yb + block_count - 1) \div block_count
        loop[k \in 0..(steps_i * steps_j)] ==
            IF k = steps_i * steps_j THEN <<>>
            ELSE LET i == (k % steps_i) * block_count
                     j == (k \div steps_i) * block_count
                     max_i == Min(i + block_count, xb)
                     max_j == Min(j + block_count, yb)
                     intersects_iw == /\ i <= iw.r1 /\ iw.r0 < max_i
                                      /\ j <= iw.c1 /\ iw.c0 < max_j
                     row_off == IF i < iw.r0 THEN iw.r0 ELSE i
                     col_off == IF j < iw.c0 THEN iw.c0 ELSE j
                     window == <<row_off, col_off, Min(max_i - 1, iw.r1) - row_off + 1,
                                 Min(max_j - 1, iw.c1) - col_off + 1>>
                 IN (IF intersects_iw THEN <<window>> ELSE <<>>) \o loop[k + 1]
    IN loop[0]

\* _windows(dst): for i in range(0, x_blocks, block_count), for j in
\* range(0, y_blocks, block_count), the union of the blocks block_window(1, i, j)
\* (block row i, block column j) up to max_i, max_j, intersected with
\* intersecting_window; windows that do not intersect are dropped.  A window
\* is <<row_off, col_off, height, width>> in blocks.
_windows(xb, yb, block_count, iw) ==
    LET steps_i == (xb + block_count - 1) \div block_count
        steps_j == (yb + block_count - 1) \div block_count
        loop[k \in 0..(steps_i * steps_j)] ==
            IF k = steps_i * steps_j THEN <<>>
            ELSE LET i == (k \div steps_j) * block_count
                     j == (k % steps_j) * block_count
                     max_i == Min(i + block_count, xb)
                     max_j == Min(j + block_count, yb)
                     intersects == /\ i <= iw.r1 /\ iw.r0 < max_i
                                   /\ j <= iw.c1 /\ iw.c0 < max_j
                     row_off == IF i < iw.r0 THEN iw.r0 ELSE i
                     col_off == IF j < iw.c0 THEN iw.c0 ELSE j
                     window == <<row_off, col_off, Min(max_i - 1, iw.r1) - row_off + 1,
                                 Min(max_j - 1, iw.c1) - col_off + 1>>
                 IN (IF intersects THEN <<window>> ELSE <<>>) \o loop[k + 1]
    IN loop[0]

\* The profile of the destination of a tile of x_blocks x x_blocks blocks:
\* width, height and the origin of its transform.
tile_profile == <<x_blocks, x_blocks, <<0, 0>>>>

\* _write_window_to_separate_file: the profile the temporary file is opened
\* with, profile.update(width=dst_window.width, height=dst_window.height,
\* transform=rasterio.windows.transform(dst_window, profile["transform"])).
separate_file_profile(w) ==
    <<windows[w][4], windows[w][3],
      <<dst_profile[3][1] + windows[w][2], dst_profile[3][2] + windows[w][1]>>>>

\* An update of the profile object of the destination itself.
update_in_place(profile, updated) == updated

\* profile = deepcopy(self.dst[self.default_format].profile): what the
\* profile of the destination is after its copy was updated.
deepcopy(profile, updated) == profile

InitParallel ==
    /\ GLOBALS_cores \in 1..4
    /\ GLOBALS_workers \in 1..2
    /\ GLOBALS_divisor \in 1..2
    /\ memory \in {8, 64}
    /\ layer_calc \in BOOLEAN
    /\ x_blocks \in 1..MaxBlocks
    /\ out_files = <<>>
    /\ tmp_files = {}
    /\ windows = <<>>
    /\ pool = 0
    /\ partial = {}
    /\ vrt_srcs = {}
    /\ dst_shape = <<>>
    /\ dst_profile = tile_profile
    /\ file_profile = <<>>
    /\ windows_has_data = <<>>
    /\ par_pc = "_process_windows"
    /\ NoPipe /\ NoCli /\ NoModel /\ NoWindow /\ NoRetry /\ NoGeo /\ NoUnit

\* _process_windows up to the list of windows: the mode is chosen by
\* co_workers, with co_workers >= 2 a pool of co_workers processes is made, and
\* windows() creates the local output file with the profile of the destination
\* and lists the windows; range() raises for a block_count of 0.
_process_windows ==
    /\ par_pc = "_process_windows"
    /\ LET co_workers == get_co_workers
           block_count == floor_sqrt(_max_blocks)
       IN /\ pool' = IF co_workers >= 2 THEN co_workers ELSE 0
          /\ dst_shape' = <<x_blocks, x_blocks>>
          /\ IF block_count = 0
             THEN /\ windows' = <<>>
                  /\ out_files' = <<>>
                  /\ par_pc' = "raised"
             ELSE \E iw \in IntersectingWindows(x_blocks) \cup {NoIntersection} :
                     /\ Len(_windows(x_blocks, x_blocks, block_count, iw)) <= NWindows
                     /\ windows' = _windows(x_blocks, x_blocks, block_count, iw)
                     /\ out_files' = [w \in 1..Len(windows') |-> "todo"]
                     /\ par_pc' = IF co_workers >= 2 THEN "map" ELSE "loop"
    /\ UNCHANGED <<windows_has_data, profiles, beyond_par, par_inputs, tmp_files, partial, vrt_srcs>>

\* The windows a process is working on.
Busy == {w \in DOMAIN out_files : out_files[w] \in {"running", "writing"}}

\* A sequential loop that starts the next window without waiting for the
\* process of the one before.
_transform_no_wait(w) ==
    /\ w \in DOMAIN out_files
    /\ out_files[w] = "todo"
    /\ \/ par_pc = "map" /\ Cardinality(Busy) < pool
       \/ /\ par_pc = "loop"
          /\ \A v \in DOMAIN out_files : v < w => out_files[v] # "todo"
    /\ out_files' = [out_files EXCEPT ![w] = "running"]
    /\ UNCHANGED <<windows_has_data, profiles, beyond_par, par_inputs, tmp_files, par_pc, windows, pool, partial,
                   vrt_srcs, dst_shape>>

\* _transform(vrt, window, ...) starts in a process and reads the window: in
\* a free process of the pool, or, in the loop of _process_windows_sequential,
\* for the next window of the list once the process of the one before is over.
_transform(w) ==
    /\ w \in DOMAIN out_files
    /\ out_files[w] = "todo"
    /\ \/ par_pc = "map" /\ Cardinality(Busy) < pool
       \/ /\ par_pc = "loop"
          /\ Busy = {}
          /\ \A v \in DOMAIN out_files : v < w => out_files[v] # "todo"
    /\ out_files' = [out_files EXCEPT ![w] = "running"]
    /\ UNCHANGED <<windows_has_data, profiles, beyond_par, par_inputs, tmp_files, par_pc, windows, pool, partial,
                   vrt_srcs, dst_shape>>

\* _write_window: the window has data and is written, to its own file
\* (opened with "w") in the pool, into the local output file (opened with
\* "r+") otherwise.
_write_window(w) ==
    /\ w \in DOMAIN out_files
    /\ out_files[w] = "running"
    /\ out_files' = [out_files EXCEPT ![w] = "writing"]
    /\ IF par_pc = "map"
       THEN /\ tmp_files' = tmp_files \cup {WindowFile(w)}
            /\ partial' = partial \cup {WindowFile(w)}
            /\ file_profile' = [file \in DOMAIN file_profile \cup {WindowFile(w)} |->
                                   IF file = WindowFile(w) THEN separate_file_profile(w)
                                   ELSE file_profile[file]]
            /\ dst_profile' = deepcopy(dst_profile, separate_file_profile(w))
       ELSE UNCHANGED <<tmp_files, partial, profiles>>
    /\ UNCHANGED <<windows_has_data, beyond_par, par_inputs, par_pc, windows, pool, vrt_srcs, dst_shape>>

\* _parallel_transform(window) in a worker of the pool ends: the window has no
\* data (None), or it was written to its own file, the file closed and the
\* path returned, or an exception is raised, before the file is opened or
\* while it is written.
_parallel_transform(w) ==
    /\ par_pc = "map"
    /\ w \in Busy
    /\ \/ /\ out_files[w] = "running"
          /\ \E r \in {"none", "raised"} : out_files' = [out_files EXCEPT ![w] = r]
          /\ partial' = partial
       \/ /\ out_files[w] = "writing"
          /\ out_files' = [out_files EXCEPT ![w] = "file"]
          /\ partial' = partial \ {WindowFile(w)}
       \/ /\ out_files[w] = "writing"
          /\ out_files' = [out_files EXCEPT ![w] = "raised"]
          /\ partial' = partial
    /\ UNCHANGED <<windows_has_data, profiles, beyond_par, par_inputs, tmp_files, par_pc, windows, pool, vrt_srcs,
                   dst_shape>>

\* _processified_transform(vrt, window) ends in its own process, which the
\* loop waits for; an exception leaves the loop and _process_windows.
_processified_transform(w) ==
    /\ par_pc = "loop"
    /\ w \in Busy
    /\ \E r \in (IF out_files[w] = "running" THEN {"none", "raised"}
                 ELSE {"file", "raised"}) :
          /\ out_files' = [out_files EXCEPT ![w] = r]
          /\ par_pc' = IF r = "raised" THEN "raised" ELSE par_pc
    /\ UNCHANGED <<windows_has_data, profiles, beyond_par, par_inputs, tmp_files, windows, pool, partial, vrt_srcs,
                   dst_shape>>

\* A has_data that is true whenever a window was processed.
any_value == DOMAIN out_files # {}

\* has_data = any(value is not None for value in out_files)
any_not_none == \E w \in DOMAIN out_files : out_files[w] # "none"

\* _process_windows_sequential returns after the last window of the list.
_process_windows_sequential ==
    /\ par_pc = "loop"
    /\ \A w \in DOMAIN out_files : out_files[w] \in {"none", "file"}
    /\ par_pc' = "returned"
    /\ windows_has_data' = <<any_not_none>>
    /\ UNCHANGED <<profiles, beyond_par, par_inputs, out_files, tmp_files, windows, pool, partial,
                   vrt_srcs, dst_shape>>

\* A map that returns with the first result instead of the last.
pool_map_first_result ==
    /\ par_pc = "map"
    /\ \E w \in DOMAIN out_files : out_files[w] \in {"none", "file", "raised"}
    /\ par_pc' = IF \E w \in DOMAIN out_files : out_files[w] = "raised" THEN "raised"
                 ELSE IF all_files = {} THEN "returned"
                 ELSE "create_vrt"
    /\ windows_has_data' = IF par_pc' = "returned" THEN <<FALSE>> ELSE windows_has_data
    /\ UNCHANGED <<profiles, beyond_par, par_inputs, out_files, tmp_files, windows, pool, partial,
                   vrt_srcs, dst_shape>>

\* pool.map returns when every window is done and raises if a worker raised;
\* with no file at all has_data stays False and the function returns.
pool_map ==
    /\ par_pc = "map"
    /\ \A w \in DOMAIN out_files : out_files[w] \in {"none", "file", "raised"}
    /\ par_pc' = IF \E w \in DOMAIN out_files : out_files[w] = "raised" THEN "raised"
                 ELSE IF all_files = {} THEN "returned"
                 ELSE "create_vrt"
    /\ windows_has_data' = IF par_pc' = "returned" THEN <<FALSE>> ELSE windows_has_data
    /\ UNCHANGED <<profiles, beyond_par, par_inputs, out_files, tmp_files, windows, pool, partial,
                   vrt_srcs, dst_shape>>

\* create_vrt(all_files, extent=self.bounds, vrt=vrt_name)
create_vrt ==
    /\ par_pc = "create_vrt"
    /\ \E raises \in BOOLEAN :
          IF raises
          THEN par_pc' = "raised" /\ tmp_files' = tmp_files /\ vrt_srcs' = vrt_srcs
          ELSE /\ par_pc' = "raster_copy"
               /\ tmp_files' = tmp_files \cup {VrtFile}
               /\ vrt_srcs' = all_files
    /\ UNCHANGED <<windows_has_data, profiles, beyond_par, par_inputs, out_files, windows, pool, partial, dst_shape>>

\* A composite VRT with the extent of the files it is built from.
vrt_extent_of_files ==
    LET origins == {windows[w] : w \in {v \in DOMAIN out_files : out_files[v] = "file"}}
        rows == {o[1] : o \in origins}
        cols == {o[2] : o \in origins}
        Span(S) == 1 + (CHOOSE m \in S : \A n \in S : n <= m)
                     - (CHOOSE m \in S : \A n \in S : m <= n)
    IN <<Span(cols), Span(rows)>>

\* The extent of the composite VRT in blocks: extent=self.bounds, the bounds
\* of the tile.
vrt_extent == <<x_blocks, x_blocks>>

\* raster_copy(vrt_name, self.local_dst[...].uri, strict=False, **profile)
raster_copy ==
    /\ par_pc = "raster_copy"
    /\ \E raises \in BOOLEAN :
          IF raises
          THEN par_pc' = "raised" /\ dst_shape' = dst_shape
          ELSE par_pc' = "remove" /\ dst_shape' = vrt_extent
    /\ UNCHANGED <<windows_has_data, profiles, beyond_par, par_inputs, out_files, tmp_files, windows, pool, partial,
                   vrt_srcs>>

\* for f in all_files: os.remove(f); has_data = True; return has_data
remove_all_files ==
    /\ par_pc = "remove"
    /\ tmp_files' = tmp_files \ all_files
    /\ par_pc' = "returned"
    /\ windows_has_data' = <<TRUE>>
    /\ UNCHANGED <<profiles, beyond_par, par_inputs, out_files, windows, pool, partial, vrt_srcs,
                   dst_shape>>

NextParallel ==
    \/ _process_windows
    \/ \E w \in Windows : _transform(w)
    \/ \E w \in Windows : _write_window(w)
    \/ \E w \in Windows : _parallel_transform(w)
    \/ \E w \in Windows : _processified_transform(w)
    \/ _process_windows_sequential
    \/ pool_map
    \/ create_vrt
    \/ raster_copy
    \/ remove_all_files

SpecParallel == InitParallel /\ [][NextParallel]_vars

\* ==================================================== geometry of a tile
\* Coordinates are integers, in units of 0.00001 degrees.
\* grid.xres and grid.yres of the grid "1/4000": 0.00025 degrees.
xres == 25

yres == 25

\* The coordinates the bounds of a source are drawn from: on and off the
\* pixel grid, west and east of Greenwich.
Coordinates == {-35, 910000, 920000, 977700, 977770, 1011100, 1011170, 1020000}

\* ceil(a / b) and floor(a / b) for b > 0.
floor_div(a, b) == a \div b

ceil_div(a, b) == -((-a) \div b)

\* A snap that takes the pixel row above the point even for a point on the grid.
snap_coordinates_below(lat, lng) ==
    <<(floor_div(lat, yres) + 1) * yres, floor_div(lng, xres) * xres>>

\* Grid.snap_coordinates(lat, lng): the corner of the pixel grid at or to the
\* top left of the point, the latitude snapped upwards and the longitude
\* snapped downwards.
snap_coordinates(lat, lng) ==
    <<ceil_div(lat, yres) * yres, floor_div(lng, xres) * xres>>

\* A from_origin that takes its first two arguments in the other order.
from_origin_swapped(west, north, xsize, ysize) == <<xsize, 0, north, 0, -ysize, west>>

\* rasterio.transform.from_origin(west, north, xsize, ysize):
\* Affine.translation(west, north) * Affine.scale(xsize, -ysize)
from_origin(west, north, xsize, ysize) == <<xsize, 0, west, 0, -ysize, north>>

\* Python's round(num / den): to the nearest integer, a half to the even one.
round(num, den) ==
    LET fl == floor_div(num, den)
        twice == 2 * (num - fl * den)
    IN IF twice < den THEN fl
       ELSE IF twice > den THEN fl + 1
       ELSE IF fl % 2 = 0 THEN fl ELSE fl + 1

\* A _vrt_transform that sizes the view by the bounds it was given.
_vrt_transform_unsnapped_size(west, south, east, north) ==
    LET nw == snap_coordinates(north, west)
    IN <<from_origin(nw[2], nw[1], xres, yres),
         round(east - west, xres), round(north - south, yres)>>

\* _vrt_transform(west, south, east, north)
_vrt_transform(west, south, east, north) ==
    LET nw == snap_coordinates(north, west)
        se == snap_coordinates(south, east)
        affine == from_origin(nw[2], nw[1], xres, yres)
        width == round(se[2] - nw[2], xres)
        height == round(nw[1] - se[1], yres)
    IN <<affine, width, height>>

\* The geometry of tile 10N_010E and the polygons of a manifest, in degrees:
\* a polygon that covers the tile, one that shares an edge with it, one that
\* shares a corner with it and one apart from it.
tile_geom == [x0 |-> 10, y0 |-> 9, x1 |-> 11, y1 |-> 10]

ManifestPolygons ==
    {[x0 |-> 9, y0 |-> 8, x1 |-> 12, y1 |-> 11],
     [x0 |-> 11, y0 |-> 9, x1 |-> 12, y1 |-> 10],
     [x0 |-> 11, y0 |-> 10, x1 |-> 12, y1 |-> 11],
     [x0 |-> 12, y0 |-> 9, x1 |-> 13, y1 |-> 10]}

\* shapely: a.intersects(b), the polygons share a point.
intersects(a, b) ==
    a.x0 <= b.x1 /\ b.x0 <= a.x1 /\ a.y0 <= b.y1 /\ b.y0 <= a.y1

\* shapely: a.touches(b), the polygons share a point and their interiors
\* share none.
touches(a, b) ==
    /\ intersects(a, b)
    /\ ~(a.x0 < b.x1 /\ b.x0 < a.x1 /\ a.y0 < b.y1 /\ b.y0 < a.y1)

\* A src that takes every file that intersects the tile.
src_intersects_only(geom, files) ==
    LET found == {p \in files : intersects(geom, p)}
    IN IF found = {} THEN <<"Exception", {}>> ELSE <<"RasterSource", found>>

\* RasterSrcTile.src: the input files of the tile, an exception without any.
src(geom, files) ==
    LET found == {p \in files : intersects(geom, p) /\ ~touches(geom, p)}
    IN IF found = {} THEN <<"Exception", {}>> ELSE <<"RasterSource", found>>

\* RasterSrcTile.within(): layer.geom is the union of the polygons of the
\* manifest; it intersects the tile when one of them does, and touches it
\* when it intersects it and the interior of none of them meets the tile's.
RasterSrcTile_within(geom, files) ==
    /\ \E p \in files : intersects(geom, p)
    /\ ~(/\ \E p \in files : intersects(geom, p)
         /\ \A p \in files : intersects(geom, p) => touches(geom, p))

InitGeo ==
    /\ src_bounds \in {b \in Coordinates \X Coordinates \X Coordinates \X Coordinates :
                          b[1] < b[3] /\ b[2] < b[4]}
    /\ input_files \in SUBSET ManifestPolygons
    /\ snap_ret = <<>>
    /\ vrt_ret = <<>>
    /\ src_ret = <<>>
    /\ within_ret = <<>>
    /\ NoPipe /\ NoCli /\ NoModel /\ NoWindow /\ NoRetry /\ NoParallel /\ NoUnit

\* top, left = grid.snap_coordinates(north, west)
Call_snap_coordinates ==
    /\ snap_ret = <<>>
    /\ snap_ret' = snap_coordinates(src_bounds[4], src_bounds[1])
    /\ UNCHANGED <<beyond_geo, src_bounds, vrt_ret, input_files, src_ret, within_ret>>

\* transform, width, height = self._vrt_transform(*bounds)
Call_vrt_transform ==
    /\ vrt_ret = <<>>
    /\ vrt_ret' = _vrt_transform(src_bounds[1], src_bounds[2], src_bounds[3], src_bounds[4])
    /\ UNCHANGED <<beyond_geo, src_bounds, snap_ret, input_files, src_ret, within_ret>>

\* tile.src
Call_src ==
    /\ src_ret = <<>>
    /\ src_ret' = src(tile_geom, input_files)
    /\ UNCHANGED <<beyond_geo, src_bounds, snap_ret, vrt_ret, input_files, within_ret>>

\* tile.within()
Call_within ==
    /\ within_ret = <<>>
    /\ within_ret' = <<RasterSrcTile_within(tile_geom, input_files)>>
    /\ UNCHANGED <<beyond_geo, src_bounds, snap_ret, vrt_ret, input_files, src_ret>>

NextGeo ==
    \/ Call_snap_coordinates
    \/ Call_vrt_transform
    \/ Call_src
    \/ Call_within

SpecGeo == InitGeo /\ [][NextGeo]_vars

\* ================================================================ claims
FilterStages == {StageNo("filter_subset_tiles"), StageNo("filter_src_tiles"),
                 StageNo("filter_target_tiles"), StageNo("delete_if_empty")}

InLists(t) ==
    (IF tiles[t] > 0 THEN 1 ELSE 0) + (IF skipped_tiles[t] > 0 THEN 1 ELSE 0)
        + (IF failed_tiles[t] > 0 THEN 1 ELSE 0)

ListsLen == BagLen(tiles) + BagLen(skipped_tiles) + BagLen(failed_tiles)

\* The filter stages a tile passes before it is transformed.
Rejected(t) == \E s \in 1..3 : entered[s][t] > left[s][t]

\* C1: for every filter stage (subset, destination-exists, source-intersect,
\* empty) the tiles leaving it are a sub-bag of the tiles entering it (no tile
\* invented, none duplicated), and when create_tiles has returned no tile is
\* in more than one of the three result lists.
C1_FilterConservation ==
    /\ \A s \in FilterStages : \A t \in TileIdSet :
          /\ left[s][t] <= entered[s][t]
          /\ (t \notin grid_tiles => left[s][t] = 0)
    /\ phase = "returned" => \A t \in TileIdSet : InLists(t) <= 1

\* C1 witness: a run has returned in which a filter rejected a tile, another
\* tile passed all filters, and a tile was collected in a result list.
C1_Witness ==
    /\ phase = "returned"
    /\ \E s \in FilterStages : \E t \in grid_tiles :
          entered[s][t] = 1 /\ left[s][t] = 0
    /\ \E t \in grid_tiles : \A s \in FilterStages : left[s][t] = 1
    /\ \E t \in grid_tiles : InLists(t) = 1

\* C2: every seeded tile is reported in one of the three lists: a tile rejected
\* by the subset, destination-exists or source-intersect filter is collected
\* as skipped, so the list sizes sum to the number of seeded tiles.
C2_AllSeededReported ==
    phase = "returned" =>
        /\ ListsLen = Cardinality(grid_tiles)
        /\ \A t \in grid_tiles : Rejected(t) => skipped_tiles[t] > 0

AllowedTransition(a, b) ==
    <<a, b>> \in {<<"pending", "skipped">>, <<"pending", "failed">>,
                  <<"pending", "succeeded">>, <<"succeeded", "failed">>}

LaterStageEvents == {"transform", "postprocessing", "upload", "rm_local_src"}

\* C3: a tile's status starts pending and changes only along pending->skipped,
\* pending->failed, pending->succeeded, succeeded->failed; once a tile is
\* skipped or failed its status never changes again and no later stage
\* (transform, postprocess, upload, cleanup) acts on it.
C3_StatusTerminal ==
    /\ \A t \in TileIdSet : status[t] = "pending"
    /\ [][\A t \in TileIdSet :
            /\ status'[t] # status[t] => AllowedTransition(status[t], status'[t])
            /\ status[t] \in {"skipped", "failed"} =>
                  /\ status'[t] = status[t]
                  /\ events'[t] \cap LaterStageEvents = events[t] \cap LaterStageEvents
         ]_vars

\* C4: an exception raised while one tile is processed in any stage never
\* aborts create_tiles, and when the run returns the offending tile is
\* counted in failed.
C4_NeverAborts ==
    /\ phase # "aborted"
    /\ phase = "returned" =>
          \A t \in transform_err \cup upload_err : failed_tiles[t] > 0

\* C5: when window processing of a tile raises, transform does not propagate
\* the exception (the stage yields the tile), the tile is failed, the
\* postprocess hook is not invoked, and has_data is true, so the emptiness
\* filter does not classify the tile as empty.
C5_TransformError ==
    \A t \in transform_err :
        /\ status[t] = "failed"
        /\ has_data[t]
        /\ "postprocessing" \notin events[t]
        /\ left[StageNo("transform")][t] = entered[StageNo("transform")][t]
        /\ left[StageNo("delete_if_empty")][t] = entered[StageNo("delete_if_empty")][t]

\* C5 witness: a tile whose window processing raised has gone through the
\* emptiness filter.
C5_Witness ==
    \E t \in transform_err : entered[StageNo("delete_if_empty")][t] > 0

\* C6: a tile whose upload raised ends in the failed list and never in the
\* succeeded list, the upload stage carries on after it, and every tile that
\* reached the upload stage had its upload attempted.
C6_UploadError ==
    /\ \A t \in upload_err :
          /\ tiles[t] = 0
          /\ left[StageNo("upload_file")][t] = entered[StageNo("upload_file")][t]
    /\ phase = "returned" =>
          /\ \A t \in upload_err : failed_tiles[t] > 0
          /\ \A t \in TileIdSet :
                left[StageNo("upload_file") - 1][t] > 0 => "upload" \in events[t]

\* C6 witness: the run has returned, one tile's upload raised and another
\* tile was uploaded in the same run.
C6_Witness ==
    /\ phase = "returned"
    /\ \E t \in upload_err : \E u \in grid_tiles \ upload_err :
          /\ failed_tiles[t] > 0
          /\ "upload" \in events[u]
          /\ u \in remote

\* C7: a tile whose transform completed without error and found no data ends
\* with status skipped, its local output file removed, and is never uploaded.
C7_EmptySkipped ==
    \A t \in TileIdSet :
        ("transform" \in events[t] /\ t \notin transform_err /\ ~has_data[t]
            /\ entered[StageNo("delete_if_empty")][t] > 0) =>
            /\ status[t] = "skipped"
            /\ ~local_dst[t]
            /\ "upload" \notin events[t]

\* C8: a tile that does not intersect the source footprint leaves the
\* source-intersect filter with a non-pending status and is never transformed
\* nor uploaded; a tile that intersects leaves the filter still pending.
C8_NoIntersect ==
    \A t \in grid_tiles :
        entered[StageNo("filter_src_tiles")][t] > 0 =>
            IF within(t)
            THEN /\ left[StageNo("filter_src_tiles")][t] > 0
                 /\ q[StageNo("filter_target_tiles")][t] > 0 => status[t] = "pending"
            ELSE /\ status[t] # "pending"
                 /\ "transform" \notin events[t]
                 /\ "upload" \notin events[t]

\* C9: the pipeline run twice with overwrite=false: in the second run a tile
\* whose destination exists is neither transformed nor uploaded, every tile
\* that does not fail is reported as skipped, and the remote objects are those
\* of the first run. With overwrite=true the destination-exists filter
\* rejects no tile.
C9_Idempotent ==
    /\ (run = "second" /\ phase = "returned" /\ ~overwrite) =>
          /\ \A t \in grid_tiles \cap remote_first :
                "transform" \notin events[t] /\ "upload" \notin events[t]
          /\ \A t \in grid_tiles : failed_tiles[t] = 0 => skipped_tiles[t] > 0
          /\ remote = remote_first
    /\ overwrite =>
          \A t \in TileIdSet :
              left[StageNo("filter_target_tiles")][t]
                  = entered[StageNo("filter_target_tiles")][t]

\* C10: scenario S1 without any processing error returns succeeded = 1 tile
\* (10N_010E), skipped = 2 tiles, failed = 0 tiles.
C10_ScenarioS1 ==
    (phase = "returned" /\ transform_err = {} /\ upload_err = {}) =>
        /\ tiles = BagOf({"10N_010E"})
        /\ BagLen(skipped_tiles) = 2
        /\ BagLen(failed_tiles) = 0

\* The pattern of the specification, matched against the whole string:
\* v[0-9]{1,8}(\.[0-9]{0,3}){0,2}
VersionPattern(s) ==
    LET n == Len(s)
    IN  \E a \in 1..8 : \E g \in 0..2 : \E b \in 0..3 : \E c \in 0..3 :
            /\ n = 1 + a + (IF g >= 1 THEN 1 + b ELSE 0) + (IF g = 2 THEN 1 + c ELSE 0)
            /\ s[1] = "v"
            /\ AllDigits(s, 2, 1 + a)
            /\ g >= 1 => (s[2 + a] = "." /\ AllDigits(s, 3 + a, 2 + a + b))
            /\ g = 2 => (s[3 + a + b] = "." /\ AllDigits(s, 4 + a + b, n))

\* C12: the layer model accepts a version string if and only if the whole
\* string matches v[0-9]{1,8}(\.[0-9]{0,3}){0,2}, and rejects every other
\* string with a validation error.
C12_VersionPattern ==
    validation # "none" =>
        /\ validation = "ok" <=> VersionPattern(version)
        /\ validation = "ValidationError" <=> ~VersionPattern(version)

\* C11: the program exits with code 0 exactly when the run returned its lists
\* and the failed list is empty, and with a non-zero code when the returned
\* failed list is not empty; the exit code depends on the number of failed
\* tiles only, never on the number of skipped (or processed) tiles.
C11_ExitCode ==
    /\ \A a \in 0..NTiles : \A b \in 0..NTiles : \A c \in 0..NTiles :
          (cli_exit_code(a, b, c) = 0) <=> (c = 0)
    /\ exit_code # <<>> =>
          /\ exit_code = <<0>> <=> (phase = "returned" /\ BagLen(failed_tiles) = 0)
          /\ phase = "returned" => (exit_code[1] # 0 <=> BagLen(failed_tiles) > 0)

\* C11 witness: the program has exited after a run that returned a processed
\* tile and a failed tile.
C11_Witness ==
    /\ exit_code # <<>>
    /\ phase = "returned"
    /\ BagLen(failed_tiles) > 0
    /\ BagLen(tiles) > 0

\* C13: when the version string does not match the version pattern the run
\* fails before the grid, the layer or the pipe is created: no tile is
\* seeded, no stage executes, nothing is read from or written to the bucket,
\* and the program ends with an error.
C13_ValidationFirst ==
    ~VERSION_REGEX(version) =>
        /\ created \subseteq {"cwd"}
        /\ phase = "idle"
        /\ \A t \in TileIdSet : events[t] = {}
        /\ \A s \in 1..NStages : q[s] = EmptyBag /\ entered[s] = EmptyBag
        /\ pc \in {"pixetl", "verify_version_pattern", "except", "raised", "exited"}
        /\ pc = "exited" => exit_code # <<0>>

\* C13 witness: the program has exited on a version that does not match.
C13_Witness == ~VERSION_REGEX(version) /\ pc = "exited" /\ exit_code # <<>>

\* C14: the dtype cast returns an array of the same shape in the destination
\* dtype; with a nodata every masked cell equals the nodata and every unmasked
\* cell keeps its cast value, so with N masked cells and no unmasked cell
\* whose cast value is the nodata exactly N cells equal the nodata; with no
\* nodata every cell is the cast of the underlying data.
C14_SetDtype ==
    ret # <<>> =>
        LET out == ret[1]
            n == Len(masked_array)
            Masked(i) == masked_array[i].mask
            IsNoData(i) == out[i] = nodata[1]
        IN  /\ Len(out) = n
            /\ \A i \in 1..n : out[i] \in 0..(2 ^ DTYPE_BITS - 1)
            /\ nodata # <<>> =>
                  /\ \A i \in 1..n :
                        out[i] = IF Masked(i) THEN nodata[1]
                                 ELSE astype(masked_array[i].data)
                  /\ (\A i \in 1..n : ~Masked(i) => astype(masked_array[i].data) # nodata[1])
                        => Cardinality({i \in 1..n : IsNoData(i)})
                              = Cardinality({i \in 1..n : Masked(i)})
            /\ nodata = <<>> =>
                  \A i \in 1..n : out[i] = astype(masked_array[i].data)

\* C14 witness: an array with a masked and an unmasked cell, the masked one
\* holding a value that is not the nodata, was cast with nodata 5.
C14_Witness ==
    /\ ret # <<>>
    /\ nodata = <<5>>
    /\ \E i \in 1..Len(masked_array) : \E j \in 1..Len(masked_array) :
          /\ masked_array[i].mask /\ masked_array[i].data # 5
          /\ ~masked_array[j].mask
          /\ ret[1][i] = 5

\* np.zeros((1, 3))
Zeros3 == [i \in 1..3 |-> [data |-> 0, mask |-> FALSE]]

\* array.sum()
RECURSIVE SumData(_)
SumData(array) ==
    IF array = <<>> THEN 0
    ELSE array[1].data + SumData(Tail(array))

\* C15: calc applies the expression to every cell of the array bound to A
\* with * binding tighter than +: "A+1" gives a+1, "A+1*5" gives a+5 and
\* "A*5+1" gives 5a+1 in every unmasked cell a, so on a 1x3 array of zeros
\* the sums are 3, 15 and 3; with no calc expression the array is returned
\* unchanged.
C15_CalcPrecedence ==
    \A k \in 1..Len(ret) :
        LET out == ret[k]
            n == Len(masked_array)
            Is(g(_)) == /\ Len(out) = n
                        /\ \A i \in 1..n :
                              /\ out[i].mask = masked_array[i].mask
                              /\ ~masked_array[i].mask => out[i].data = g(masked_array[i].data)
            plus1(a) == a + 1
            plus5(a) == a + 5
            times5plus1(a) == 5 * a + 1
        IN  /\ calc = <<>> => out = masked_array
            /\ calc = CALC_A_PLUS_1 =>
                  Is(plus1) /\ (masked_array = Zeros3 => SumData(out) = 3)
            /\ calc = CALC_A_PLUS_1_TIMES_5 =>
                  Is(plus5) /\ (masked_array = Zeros3 => SumData(out) = 15)
            /\ calc = CALC_A_TIMES_5_PLUS_1 =>
                  Is(times5plus1) /\ (masked_array = Zeros3 => SumData(out) = 3)

\* C15 witness: "A*5+1" was evaluated on a 1x3 array of zeros.
C15_Witness ==
    /\ ret # <<>>
    /\ masked_array = Zeros3
    /\ calc = CALC_A_TIMES_5_PLUS_1
    /\ SumData(ret[1]) = 3

\* The calc language: A, numeric literals, the operators, parentheses and the
\* elementwise functions of the allowlist.
CalcAllowed(ts) ==
    \A i \in 1..Len(ts) :
        \/ ts[i] = "A"
        \/ IsNumber(ts[i])
        \/ ts[i] \in {"+", "-", "*", "/", "//", "%", "**", "(", ")", ","}
        \/ ts[i] \in {"abs", "log", "log2", "log10", "exp", "sqrt", "floor", "ceil",
                       "minimum", "maximum", "where", "isnan", "isfinite"}

\* C16: evaluating a calc expression of the calc language on an array x
\* leaves x unchanged, returns an array of the shape of x, returns what every
\* earlier evaluation with the same inputs returned, and changes no other
\* state: no global name is created or bound again.
C16_CalcPure ==
    [][(calc # <<>> /\ CalcAllowed(calc)) =>
            /\ masked_array' = masked_array
            /\ Len(ret') = Len(ret) + 1
            /\ Len(ret'[Len(ret')]) = Len(masked_array)
            /\ \A k \in 1..Len(ret) : ret[k] = ret'[Len(ret')]
            /\ globals_f' = globals_f
      ]_vars

\* C17: an expression with anything outside the allowlist (attribute access,
\* indexing, another name, a call of another function) is rejected before
\* any of it is executed: no such expression is ever run.
C17_CalcAllowlist == \A e \in executed : CalcAllowed(e)

\* A transient I/O error: an I/O error that is none of not-found,
\* unknown-format, access-denied.
Transient(e) == e.cls = "RasterioIOError" /\ e.msg \in TRANSIENT_ERRORS

\* A not-found or unknown-format error.
NotFoundOrUnknownFormat(e) ==
    /\ e.cls = "RasterioIOError"
    /\ e.msg \in FILE_DOES_NOT_EXIST_ERRORS \ {"Access Denied"}

\* C18: a window read that fails with a transient I/O error is tried again:
\* there are at most 7 attempts; a success on any attempt returns normally
\* whatever transient failures came before; after the 7th transient failure
\* in a row the error is raised, which makes transform fail the tile; and
\* the wait before retry k (after k failed attempts) is min(1s * 2^k, 300s).
C18_ReadRetry ==
    fn = "_read_window" =>
        LET n == Len(attempts)
            AllTransient(m) == \A k \in 1..m : Transient(attempts[k])
        IN  /\ n <= 7
            /\ (n >= 1 /\ AllTransient(n - 1) /\ attempts[n] = NoError)
                  => call_result = "returned"
            /\ call_result = "returned" => (attempts[n] = NoError /\ AllTransient(n - 1))
            /\ (AllTransient(n) /\ n < 7) =>
                  (call_result = "pending" /\ Len(waits) = n)
            /\ (AllTransient(n) /\ n = 7) =>
                  /\ call_result = "RasterioIOError"
                  /\ Len(waits) = 6
                  /\ tile_transform(TileInitStatus, "raise").status = "failed"
            /\ \A k \in 1..Len(waits) : waits[k] = Min(1000 * 2 ^ k, 300000)

\* C18 witness: the 7th attempt of a window read failed like the six before
\* it and the error was raised.
C18_Witness ==
    /\ fn = "_read_window"
    /\ Len(attempts) = 7
    /\ \A k \in 1..7 : Transient(attempts[k])
    /\ call_result = "RasterioIOError"

\* C19: a not-found or unknown-format error is never retried: in the metadata
\* fetch and in the window read the attempt that ends with one is the last
\* one and the call fails, so the call fails after exactly one attempt when
\* the first attempt ends with one; only transient I/O errors are followed
\* by a further attempt.
C19_NoRetryNotFound ==
    \A k \in 1..Len(attempts) :
        /\ NotFoundOrUnknownFormat(attempts[k]) =>
              /\ k = Len(attempts)
              /\ call_result \notin {"pending", "returned"}
        /\ k < Len(attempts) => Transient(attempts[k])

\* C19 witness: a metadata fetch has failed on its first attempt because the
\* file does not exist.
C19_Witness ==
    /\ fn = "fetch_meta"
    /\ Len(attempts) = 1
    /\ NotFoundOrUnknownFormat(attempts[1])
    /\ call_result = "FileNotFoundError"

\* C20: in parallel window mode, however the processing of the tile ends
\* (it returned, a sub-worker raised, building the VRT or copying it into
\* the final file raised), no per-window temporary file of the tile is left.
C20_NoTempFilesLeft ==
    par_pc \in {"returned", "raised"} =>
        \A w \in DOMAIN windows : WindowFile(w) \notin tmp_files

\* The merge into the final output file has started: the composite VRT is
\* being built or copied, or was.
Merging == par_pc \in {"create_vrt", "raster_copy", "remove"}

\* C21: in parallel window mode the merge of the temporaries starts only
\* after every sub-worker of the tile has completed, and the composite VRT
\* is built from exactly the temporaries of the windows that had data, each
\* of them completely written and closed.
C21_MergeAfterWorkers ==
    /\ Merging => \A w \in DOMAIN out_files : out_files[w] \in {"none", "file"}
    /\ par_pc \in {"raster_copy", "remove"} =>
          /\ vrt_srcs = {WindowFile(w) : w \in {v \in DOMAIN out_files :
                                                  out_files[v] \in {"writing", "file"}}}
          /\ vrt_srcs \subseteq tmp_files
          /\ vrt_srcs \cap partial = {}

\* C21 witness: the VRT was built from the files of two windows while a
\* third window had no data.
C21_Witness ==
    /\ par_pc = "raster_copy"
    /\ Cardinality(vrt_srcs) = 2
    /\ \E w \in DOMAIN out_files : out_files[w] = "none"

\* C22: whenever the transform of a tile has produced an output file, in
\* sequential or in parallel window mode, the file has the width and the
\* height of a tile of the grid, however small the part of the tile the
\* windows with data cover.
C22_OutputShape ==
    dst_shape # <<>> => dst_shape = <<x_blocks, x_blocks>>

\* C22 witness: a tile of at least 2 x 2 blocks was merged in parallel mode
\* from the file of a single window of one block.
C22_Witness ==
    /\ par_pc = "returned"
    /\ pool >= 2
    /\ x_blocks >= 2
    /\ floor_sqrt(_max_blocks) = 1
    /\ Cardinality(vrt_srcs) = 1
    /\ dst_shape = <<x_blocks, x_blocks>>

\* The bounds are on the pixel grid already.
Snapped(b) ==
    /\ snap_coordinates(b[4], b[1]) = <<b[4], b[1]>>
    /\ snap_coordinates(b[2], b[3]) = <<b[2], b[3]>>

\* C23: snapping is idempotent, snap(snap(lat, lng)) = snap(lat, lng), for
\* either corner of the bounds; and _vrt_transform of bounds that are snapped
\* already returns a transform whose origin is the north-west corner of
\* those bounds.
C23_SnapIdempotent ==
    /\ \A c \in {<<src_bounds[4], src_bounds[1]>>, <<src_bounds[2], src_bounds[3]>>} :
          LET once == snap_coordinates(c[1], c[2])
          IN snap_coordinates(once[1], once[2]) = once
    /\ snap_ret # <<>> => snap_coordinates(snap_ret[1], snap_ret[2]) = snap_ret
    /\ (vrt_ret # <<>> /\ Snapped(src_bounds)) =>
          /\ vrt_ret[1][3] = src_bounds[1]
          /\ vrt_ret[1][6] = src_bounds[4]

\* C23 witness: a corner off the pixel grid in both coordinates was snapped.
C23_Witness ==
    /\ snap_ret # <<>>
    /\ snap_ret[1] # src_bounds[4]
    /\ snap_ret[2] # src_bounds[1]

\* C24 as stated: snap(lat, lng) is, in each coordinate, the multiple of the
\* pixel size nearest to it; snap(9.7777, 10.1117) = (9.77775, 10.1115), and
\* (9.777, 10.111) is returned unchanged.
C24_SnapNearest ==
    snap_ret # <<>> =>
        /\ snap_ret[1] % yres = 0
        /\ snap_ret[2] % xres = 0
        /\ 2 * (snap_ret[1] - src_bounds[4]) <= yres
        /\ 2 * (src_bounds[4] - snap_ret[1]) <= yres
        /\ 2 * (snap_ret[2] - src_bounds[1]) <= xres
        /\ 2 * (src_bounds[1] - snap_ret[2]) <= xres
        /\ (src_bounds[4] = 977770 /\ src_bounds[1] = 1011170) =>
              snap_ret = <<977775, 1011150>>
        /\ (src_bounds[4] = 977700 /\ src_bounds[1] = 1011100) =>
              snap_ret = <<977700, 1011100>>

\* C24 amended: snap(lat, lng) is the corner of the pixel grid at or to the
\* top left of the point: the least multiple of yres that is >= lat and the
\* greatest multiple of xres that is <= lng; snap(9.7777, 10.1117) =
\* (9.77775, 10.1115), and (9.777, 10.111) is returned unchanged.
C24_SnapTopLeft ==
    snap_ret # <<>> =>
        /\ snap_ret[1] % yres = 0
        /\ snap_ret[2] % xres = 0
        /\ snap_ret[1] >= src_bounds[4] /\ snap_ret[1] - src_bounds[4] < yres
        /\ snap_ret[2] <= src_bounds[1] /\ src_bounds[1] - snap_ret[2] < xres
        /\ (src_bounds[4] = 977770 /\ src_bounds[1] = 1011170) =>
              snap_ret = <<977775, 1011150>>
        /\ (src_bounds[4] = 977700 /\ src_bounds[1] = 1011100) =>
              snap_ret = <<977700, 1011100>>

\* C24 witness: snap(9.7777, 10.1117) returned (9.77775, 10.1115).
C24_Witness ==
    /\ src_bounds[4] = 977770
    /\ src_bounds[1] = 1011170
    /\ snap_ret = <<977775, 1011150>>

\* C25: _vrt_transform(west, south, east, north) returns the affine
\* from_origin(west', north', xres, yres) of the snapped north-west corner
\* and the width and height between the snapped corners in pixels; for
\* (9.1, 9.1, 9.2, 9.2) that is (0.00025, 0, 9.1, 0, -0.00025, 9.2) with
\* width = height = 400.
C25_VrtTransform ==
    vrt_ret # <<>> =>
        LET nw == snap_coordinates(src_bounds[4], src_bounds[1])
            se == snap_coordinates(src_bounds[2], src_bounds[3])
        IN /\ vrt_ret[1] = <<xres, 0, nw[2], 0, -yres, nw[1]>>
           /\ vrt_ret[2] * xres = se[2] - nw[2]
           /\ vrt_ret[3] * yres = nw[1] - se[1]
           /\ src_bounds = <<910000, 910000, 920000, 920000>> =>
                 vrt_ret = <<<<25, 0, 910000, 0, -25, 920000>>, 400, 400>>

\* C25 witness: _vrt_transform(9.1, 9.1, 9.2, 9.2) returned.
C25_Witness ==
    /\ src_bounds = <<910000, 910000, 920000, 920000>>
    /\ vrt_ret # <<>>

\* The polygon shares more than boundary points with the tile: a square of
\* one degree lies in both.
Overlaps(p) ==
    \E x \in tile_geom.x0..(tile_geom.x1 - 1), y \in tile_geom.y0..(tile_geom.y1 - 1) :
        p.x0 <= x /\ x + 1 <= p.x1 /\ p.y0 <= y /\ y + 1 <= p.y1

\* C26: the input files of a tile are exactly the entries of the manifest
\* whose polygon intersects the tile without merely touching it; within()
\* is true exactly when some entry does; and without such an entry src
\* raises instead of giving an empty source.
C26_IntersectsNotTouches ==
    /\ src_ret # <<>> =>
          IF \E p \in input_files : Overlaps(p)
          THEN src_ret = <<"RasterSource", {p \in input_files : Overlaps(p)}>>
          ELSE src_ret[1] = "Exception"
    /\ within_ret # <<>> => (within_ret[1] <=> \E p \in input_files : Overlaps(p))

\* C26 witness: of a manifest with a polygon that covers the tile and
\* polygons that touch it, src took the covering one only.
C26_Witness ==
    /\ Cardinality(input_files) >= 3
    /\ src_ret # <<>>
    /\ src_ret[1] = "RasterSource"
    /\ Cardinality(src_ret[2]) = 1
    /\ within_ret = <<TRUE>>

\* C27: the divisor that sizes the super-windows is base_divisor x
\* (co_workers if co_workers >= 2 else 1) x (base_divisor if a calc
\* expression is present else 1), for every base_divisor, cores and workers,
\* with and without calc; and max_blocks is
\* floor(sqrt((memory / divisor) / bytes_per_block))^2.
C27_MemoryDivisor ==
    par_pc \notin {"idle", "_process_windows"} =>
        LET co_workers == GLOBALS_cores \div GLOBALS_workers
            expected == GLOBALS_divisor
                          * (IF co_workers >= 2 THEN co_workers ELSE 1)
                          * (IF layer_calc THEN GLOBALS_divisor ELSE 1)
        IN /\ _max_blocks_divisor = expected
           /\ \E r \in 0..memory :
                 /\ _max_blocks = r * r
                 /\ r * r * expected * _block_byte_size <= memory
                 /\ (r + 1) * (r + 1) * expected * _block_byte_size > memory

\* C28: with co_workers = floor(cores / workers), the tile is processed
\* in parallel window mode, by a sub-pool of exactly co_workers processes, if
\* and only if co_workers >= 2; otherwise it is processed in sequential
\* mode, where at most one window is being read, computed or written at any
\* time; and the co_workers that selects the mode is the one that enters the
\* memory divisor.
C28_ModeByCoWorkers ==
    par_pc \notin {"idle", "_process_windows"} =>
        LET co_workers == GLOBALS_cores \div GLOBALS_workers
            divisor == GLOBALS_divisor * (IF pool > 0 THEN pool ELSE 1)
        IN /\ pool > 0 <=> co_workers >= 2
           /\ pool > 0 => /\ pool = co_workers
                          /\ Cardinality(Busy) <= pool
                          /\ par_pc # "loop"
           /\ pool = 0 => /\ Cardinality(Busy) <= 1
                          /\ par_pc \notin {"map", "create_vrt", "raster_copy", "remove"}
           /\ _max_blocks_divisor = IF layer_calc THEN divisor * divisor ELSE divisor

\* C28 witness: with 2 co-workers two windows are in work while a third one
\* waits for a free process of the pool.
C28_Witness ==
    /\ par_pc = "map"
    /\ GLOBALS_cores \div GLOBALS_workers = 2
    /\ pool = 2
    /\ Cardinality(Busy) = 2
    /\ \E w \in DOMAIN out_files : out_files[w] = "todo"

\* The windows whose process is over.
Processed == {w \in DOMAIN out_files : out_files[w] \in {"none", "file", "raised"}}

\* C29: in sequential mode the windows of a tile are processed one after
\* another in row-major order of the block grid: the list of windows has
\* every window of one block-row, from left to right, before any window of
\* the next block-row, and a window is taken up only when every window
\* before it in that order is over.
C29_RowMajor ==
    (pool = 0 /\ par_pc \notin {"idle", "_process_windows"}) =>
        /\ \A a, b \in DOMAIN windows :
              a < b => \/ windows[a][1] < windows[b][1]
                       \/ windows[a][1] = windows[b][1] /\ windows[a][2] < windows[b][2]
        /\ \A w \in DOMAIN out_files :
              out_files[w] # "todo" =>
                  \A v \in DOMAIN out_files :
                      (\/ windows[v][1] < windows[w][1]
                       \/ windows[v][1] = windows[w][1] /\ windows[v][2] < windows[w][2])
                          => v \in Processed

\* C29 witness: of four windows in two block-rows the two of the first row
\* are over, the first of the second row is in work and the last one waits.
C29_Witness ==
    /\ par_pc = "loop"
    /\ Len(windows) = 4
    /\ windows[1][1] = windows[2][1]
    /\ windows[3][1] = windows[4][1]
    /\ windows[1][1] < windows[3][1]
    /\ Processed = {1, 2}
    /\ Busy = {3}

\* The stages of a tile in the order the specification lists them: subset,
\* exists, source intersection, transform, empty, postprocess, upload,
\* cleanup.
StatedOrder == <<"filter_subset_tiles", "filter_target_tiles", "filter_src_tiles",
                 "transform", "delete_if_empty", "compress", "upload_file",
                 "delete_file">>

\* The stages in the order create_tiles chains them.
ChainedOrder == <<"filter_subset_tiles", "filter_src_tiles", "filter_target_tiles",
                  "transform", "delete_if_empty", "compress", "upload_file",
                  "delete_file">>

\* A stage takes up a tile only as often as the stage before it in the
\* order has passed the tile on.
InOrder(order) ==
    \A t \in TileIdSet : \A k \in 2..Len(order) :
        entered[StageNo(order[k])][t] <= left[StageNo(order[k - 1])][t]

\* No tile is transformed before it passed the three filters, none is
\* uploaded before its transform and its emptiness check, and none reaches
\* the cleanup stage before its upload.
StageClauses ==
    \A t \in TileIdSet :
        /\ "transform" \in events[t] =>
              \A name \in {"filter_subset_tiles", "filter_src_tiles", "filter_target_tiles"} :
                  left[StageNo(name)][t] > 0
        /\ "upload" \in events[t] =>
              "transform" \in events[t] /\ left[StageNo("delete_if_empty")][t] > 0
        /\ entered[StageNo("delete_file")][t] > 0 => "upload" \in events[t]

C31_TransformQueueBounded ==
    phase = "running" =>
        \A s \in 1..(NStages - 1) :
            qsize(s) # 0 => BagLen(q[s]) <= qsize(s)

\* C32 as stated: the pipe has ceil(cores / 3) workers exactly when the
\* layer has a calc expression and ceil(cores / 2) otherwise; a raster layer
\* without a calc expression gets the plain raster pipe, one with a calc
\* expression the calc pipe, a vector layer the vector pipe, and any other
\* layer is rejected with an error.
C32_WorkersByCalc ==
    pipe # <<>> =>
        /\ pipe[1] = (IF layer.class = "VectorSrcLayer" THEN "VectorPipe"
                      ELSE IF layer.class # "RasterSrcLayer" THEN "ValueError"
                      ELSE IF has_calc_expression(layer) THEN "CalcRasterPipe"
                      ELSE "RasterPipe")
        /\ pipe[1] # "ValueError" =>
              pipe[2] = (IF layer.class = "RasterSrcLayer" /\ has_calc_expression(layer)
                         THEN math_ceil(machine_cpus, 3)
                         ELSE math_ceil(machine_cpus, 2))

\* C33: once the windows of a tile are planned, nothing changes the profile
\* of the tile's destination: writing a window to a temporary file of its
\* own, with the width, the height and the transform of the window, leaves
\* the width, the height and the transform of the destination profile as
\* they were, for the windows that follow and for the merge.
C33_ProfileUnchanged == par_pc # "idle" => dst_profile = tile_profile

\* C33 witness: the merge copies into the final file after a temporary file
\* was written with a profile smaller than the one of the destination.
C33_Witness ==
    /\ par_pc = "raster_copy"
    /\ \E file \in DOMAIN file_profile :
          /\ file_profile[file][1] < dst_profile[1]
          /\ file_profile[file][3] # dst_profile[3]

\* C34 as stated: for a getter made by client_constructor the client is
\* constructed at most once over any interleaving of concurrent calls, none
\* is constructed before the first call, and every call returns that same
\* client.
C34_ConstructedOnce ==
    /\ constructed <= 1
    /\ Cardinality(returned) <= 1
    /\ (\A t \in DOMAIN client_pc : client_pc[t] = "idle" /\ client_calls[t] = 0) =>
          constructed = 0

\* C35: a window whose array has no cell or no unmasked cell returns None
\* without _calc being called and without anything being written; a window
\* with an unmasked cell is calculated, then cast, then written, in that
\* order, and _transform returns the path of the file written.
C35_TransformOrder ==
    /\ \E n \in 0..4 :
          tr_log = SubSeq(<<"_read_window", "_calc", "_set_dtype", "_write_window">>, 1, n)
    /\ Len(tr_written) <= 1
    /\ tr_pc = "returned" =>
          IF out_file = <<"None">>
          THEN tr_log = <<"_read_window">> /\ tr_written = <<>>
               /\ \A i \in 1..Len(tr_array) : tr_array[i].mask
          ELSE /\ out_file = <<"path">>
               /\ tr_log = <<"_read_window", "_calc", "_set_dtype", "_write_window">>
               /\ tr_written = <<tr_array>>
    /\ Len(tr_log) > 1 => Len(tr_array) > 0
    /\ (tr_pc \in {"return", "_calc"} /\ \A i \in 1..Len(tr_array) : tr_array[i].mask) =>
          tr_pc = "return"
    /\ (tr_pc \in {"return", "_calc"} /\ \E i \in 1..Len(tr_array) : ~tr_array[i].mask) =>
          tr_pc = "_calc"

\* C35 witness: a window of MaxCells cells with data was calculated, cast
\* and written, and the path of its file returned.
C35_Witness ==
    /\ tr_pc = "returned"
    /\ out_file = <<"path">>
    /\ Len(tr_written) = 1
    /\ Len(tr_written[1]) = MaxCells

\* The pixels of a window.
Pixels(w) == (w.r0..(w.r1 - 1)) \X (w.c0..(w.c1 - 1))

\* Every pixel of the intersecting window lies in exactly one of the
\* planned windows, and the planned windows lie inside it.
ExactCover ==
    /\ planned[1] = "windows"
    /\ \A px \in Pixels(plan_iw) :
          Cardinality({k \in 1..Len(planned[2]) : px \in Pixels(planned[2][k])}) = 1
    /\ \A k \in 1..Len(planned[2]) : Pixels(planned[2][k]) \subseteq Pixels(plan_iw)

\* C36 as stated: the super-windows planned for a tile are pairwise
\* non-overlapping and their union is exactly the intersecting window, for
\* every tile size, block size and block_count >= 1, including tiles whose
\* width or height is not a multiple of the block size or whose width differs
\* from its height.
C36_ExactCover == planned # <<>> => ExactCover

\* C37: in parallel window mode no two sub-workers of a tile write to the
\* same temporary file: distinct windows of the tile have distinct
\* (col_off, row_off) pairs and so distinct file names, and the name of a
\* temporary file of another tile is never the name of one of this tile.
C37_DistinctTempFiles ==
    \A w \in DOMAIN windows : \A v \in DOMAIN windows :
        /\ w # v => /\ <<windows[w][2], windows[w][1]>> # <<windows[v][2], windows[v][1]>>
                    /\ WindowFile(w) # WindowFile(v)
        /\ \A t \in TileIdSet \ {par_tile_id} :
              file_name(t, windows[v][2], windows[v][1]) # WindowFile(w)

\* C37 witness: two sub-workers of the pool are writing their temporary
\* files at the same time.
C37_Witness ==
    /\ par_pc = "map"
    /\ \E w \in DOMAIN out_files : \E v \in DOMAIN out_files :
          /\ w # v
          /\ out_files[w] = "writing" /\ out_files[v] = "writing"
          /\ {WindowFile(w), WindowFile(v)} \subseteq partial

\* C38: _process_windows returns has_data = true if and only if at least
\* one of the windows of the tile had an unmasked pixel and was written, in
\* the sequential and in the parallel mode; when no window has data, also
\* when no window is planned at all, has_data is false, and in parallel mode
\* the merge into the final file is not made.
C38_HasData ==
    LET written == {w \in DOMAIN out_files : out_files[w] = "file"}
    IN /\ par_pc = "returned" => windows_has_data = <<written # {}>>
       /\ (par_pc \in {"create_vrt", "raster_copy", "remove"} \/ vrt_srcs # {}
            \/ VrtFile \in tmp_files) =>
             pool > 0 /\ written # {}
       /\ par_pc # "returned" => windows_has_data = <<>>

\* C38 witness: a tile with several windows, none of which had data,
\* returned in parallel mode.
C38_Witness ==
    /\ par_pc = "returned"
    /\ pool > 0
    /\ Len(out_files) > 1
    /\ \A w \in DOMAIN out_files : out_files[w] = "none"
    /\ windows_has_data = <<FALSE>>

\* C39 as stated: for every positive memory budget, block size and item
\* size the planning of the windows ends without raising and plans windows
\* of block_count >= 1 blocks per side, also when the memory for a window is
\* less than the bytes of one block (max_blocks = 0).
C39_PlanningNeverFails ==
    par_pc \notin {"idle", "_process_windows"} =>
        /\ floor_sqrt(_max_blocks) >= 1
        /\ ~(par_pc = "raised" /\ windows = <<>>)

\* The error says that the object is not there: no such key, no such file.
ObjectAbsent(e) ==
    /\ e.cls = "RasterioIOError"
    /\ e.msg \in { "does not exist in the file system, and is not recognized as a supported dataset name",
                    "The specified key does not exist",
                    "No such file or directory" }

\* C40 as stated: Destination.exists() returns True when the metadata fetch
\* succeeds, returns False only when the destination object is absent, and
\* for every other failure, access denied and unrecognised file format
\* included, lets an error leave instead of answering False; it raises when
\* the URL is not set.
C40_FalseOnlyWhenAbsent ==
    exists_pc = "done" =>
        IF Destination_url(dst_uri) = <<>> THEN exists_ret \notin {"True", "False"}
        ELSE LET last == attempts[Len(attempts)]
             IN /\ exists_ret = "True" <=> last = NoError
                /\ exists_ret = "False" => ObjectAbsent(last)
                /\ (last # NoError /\ ~ObjectAbsent(last)) =>
                      exists_ret \notin {"True", "False"}

====
